---- MODULE Spec2Model ----
(***************************************************************************)
(* BentoRepositoryAPIClient (bentoml/yatai/client/bento_repository_api.py) *)
(* running against a YataiService metadata authority and its storage       *)
(* backends.  Every client method is cut into steps at its RPCs, so that   *)
(* several clients interleave against one authority.                       *)
(***************************************************************************)
EXTENDS Integers, Sequences, FiniteSets, TLC

VARIABLES
    bentos,   \* the authority's table: reference -> [status, percentage, uriType, labels]
    store,    \* storage backend content: reference -> tree stored at its location
    pc,       \* per client: position inside the running method
    args,     \* per client: arguments of the current (or last) call
    meta,     \* per client: bento_service_metadata of the running upload
    resp,     \* per client: last response the method keeps (code, uri type, http status)
    offset,   \* per client: bulk delete's offset
    page,     \* per client: bento_list of the current page
    idx,      \* per client: number of bundles of the page already handled
    result,   \* per client: how the last call ended ("running" while it runs)
    cnt,      \* per client: RPCs and backend writes issued by the current call
    pre,      \* per client: the authority's table when the call started
    calls,    \* per client: number of calls started so far
    localBentos,  \* the table of the local YataiService (get_yatai_client())
    localStore,   \* the storage of the local YataiService
    disk,     \* directories on the client's disk: path -> tree
    build_arg,          \* the --build-arg tokens of the containerize command
    docker_build_args,  \* the map the command builds from them
    arg_i,              \* the token the command's loop is at
    cmd,                \* position of the containerize command
    isatty,             \* sys.stdout.isatty()
    busy,               \* Spinner.busy
    spinner_visible,    \* Spinner.spinner_visible
    screen_lock,        \* Spinner._screen_lock: the thread that holds it, or "none"
    spinner,            \* Spinner.spinner: position in the cycle of characters
    tpc,                \* position of the main thread and of the spinner thread
    buf,                \* what was written to sys.stdout and not flushed yet
    shown               \* spinner characters on the terminal that no backspace followed

\* The machine the client runs on.
localVars == <<localBentos, localStore, disk>>

\* The command line front end (bentoml/cli).
buildVars == <<build_arg, docker_build_args, arg_i, cmd>>
spinVars == <<isatty, busy, spinner_visible, screen_lock, spinner, tpc, buf, shown>>
cliVars == <<buildVars, spinVars>>

\* The client of the repository and what it talks to.
repoVars == <<bentos, store, pc, args, meta, resp, offset, page, idx, result, cnt, pre,
              calls, localVars>>

vars == <<repoVars, cliVars>>

---------------------------------------------------------------------------
(* Bounds of the model *)

MaxVersion == 51      \* versions per bundle name
NumClients == 2       \* clients of the authority
MaxCalls == 1         \* calls one client starts in one behaviour
MaxLen == 3           \* characters of a --build-arg token
MaxArgs == 2          \* --build-arg tokens of a command
MaxFaultRefs == 2     \* references at which the environment may fail or decline

---------------------------------------------------------------------------
(* Data *)

NameSeq == <<"IrisClassifier", "MyService">>
Names == {NameSeq[i] : i \in 1..Len(NameSeq)}
NoName == "None"
NoVersion == 0
Versions == 1..MaxVersion
Refs == [name : Names, version : Versions]
NoTag == [name |-> NoName, version |-> NoVersion]

\* A bento string without ':' is a name with no version part.
MalformedTag == [name |-> NameSeq[1], version |-> NoVersion]

\* The ':' check letting every string through.
HasColonAlways(tag) == TRUE

\* ':' in bento
HasColon(tag) == tag.version # NoVersion
NumRefs == Len(NameSeq) * MaxVersion

\* The authority's listing order of all references.
AllRefsSeq ==
    [i \in 1..NumRefs |->
        [name |-> NameSeq[((i - 1) % Len(NameSeq)) + 1],
         version |-> ((i - 1) \div Len(NameSeq)) + 1]]

FaultRefs == {AllRefsSeq[i] : i \in 1..MaxFaultRefs}

Clients == 1..NumClients

Trees == {"tree1", "tree2"}
PartialTree == "partial"

\* What an earlier bundle left at a storage location.
StaleTree == "stale"

\* What a storage location holds: a directory tree (Local backend), or a
\* gzipped tar archive whose single top-level entry is named arcname.
Dir(tree) == [kind |-> "dir", arcname |-> "", tree |-> tree]
Tar(arcname, tree) == [kind |-> "tar", arcname |-> arcname, tree |-> tree]

\* A label map with no key.
EmptyMap == [k \in {} |-> ""]

\* The passed map taking the place of the map it is merged into.
MapReplace(m, n) == n

\* dict.update
MapUpdate(m, n) ==
    [k \in (DOMAIN m) \cup (DOMAIN n) |-> IF k \in DOMAIN n THEN n[k] ELSE m[k]]

\* UploadStatus.status
UploadStatuses == {"PENDING", "UPLOADING", "DONE", "ERROR"}
NoPercentage == -1

\* BentoUri.type
UriTypes == {"LOCAL", "S3", "GCS", "UNSET"}

\* status_pb2.Status codes
OK == "OK"
NOT_FOUND == "NOT_FOUND"
INTERNAL == "INTERNAL"
ALREADY_EXISTS == "ALREADY_EXISTS"

\* HTTP status codes a PUT to a presigned URL may answer; RAISED stands
\* for requests.put raising instead of answering.
HttpStatuses == {200, 201, 204, 403, 500}
PutRaised == 0

\* Saved bundle directories on the client's disk.
SavedDirs == [name : {r.name : r \in FaultRefs}, version : {r.version : r \in FaultRefs},
              tree : Trees]
RefOf(d) == [name |-> d.name, version |-> d.version]

\* load_bento_service_metadata: the labels a saved bundle carries.
DirLabels(d) ==
    IF d.tree = "tree1" THEN [k \in {"ci"} |-> "failed"] ELSE EmptyMap

\* A label value that the label syntax does not allow.
InvalidLabels == [k \in {"ci"} |-> "not valid!"]

UploadLabelArgs ==
    {EmptyMap, [k \in {"ci"} |-> "20"], [k \in {"cohort"} |-> "20"], InvalidLabels}

\* _validate_labels: every value is of the allowed syntax.
ValidLabels(labels) == \A k \in DOMAIN labels : labels[k] # "not valid!"

\* Paths on the client's disk: a directory the caller names, and the
\* 'bundle' entry of the TempDirectory of client c's running pull.
UserDir == [dir |-> "user", owner |-> 0]
TmpBundle(c) == [dir |-> "tmp/bundle", owner |-> c]
NoPath == [dir |-> "none", owner |-> 0]

\* A label selector of list and delete: key=value.
NoSelector == [key |-> "None", value |-> "None"]
Selectors == {[key |-> "ci", value |-> "failed"]}
LabelMatch(labels, sel) == sel.key \in DOMAIN labels /\ labels[sel.key] = sel.value

\* An empty location field of a BentoUri message.
NoLoc == [scheme |-> "none", ref |-> NoTag]

\* What load is given: the path of a directory, an object-store URL, or a
\* NAME:VERSION string.
NoInput == [form |-> "none", path |-> NoPath, loc |-> NoLoc, tag |-> NoTag]
LoadInputs ==
    {[NoInput EXCEPT !.form = "path", !.path = UserDir]}
        \cup {[NoInput EXCEPT !.form = "url", !.loc = l] :
                 l \in [scheme : {"s3", "gs"}, ref : FaultRefs]}
        \cup {[NoInput EXCEPT !.form = "tag", !.tag = t] :
                 t \in FaultRefs \cup {MalformedTag}}

NoArgs ==
    [op |-> "none", input |-> NoInput, dir |-> [name |-> NoName, version |-> NoVersion, tree |-> "none"],
     labels |-> EmptyMap, tag |-> NoTag, name |-> NoName, version |-> NoVersion,
     selector |-> NoSelector, prune |-> FALSE, confirm |-> FALSE,
     with_labels |-> FALSE, target |-> NoPath, offset |-> 0, limit |-> 0]

NoMeta == [name |-> NoName, version |-> NoVersion, labels |-> EmptyMap]
\* upd is the answer to the last Update RPC, which the client does not read,
\* and req the upload status that RPC carried.
NoReq == [status |-> "none", percentage |-> NoPercentage]
\* bento is the Bento message of the last Get that answered OK.
NoBento == [status |-> "none", percentage |-> NoPercentage, uriType |-> "none",
            labels |-> EmptyMap]
\* A BentoUri message with every field empty.
NoUri == [type |-> "UNSET", uri |-> NoLoc, s3_presigned_url |-> NoLoc,
          gcs_presigned_url |-> NoLoc]

\* A presigned URL to write to: the authority makes one for each Add response
\* that names an object store, so a URL is known by the request it answers.
NoUrl == [scheme |-> "none", ref |-> NoTag, by |-> 0, call |-> 0]
NoAddUri == [type |-> "none", s3_presigned_url |-> NoUrl, gcs_presigned_url |-> NoUrl]

\* The ListBento request sent last.
NoListReq == [name |-> NoName, sel |-> NoSelector, offset |-> -1, limit |-> 0]

NoResp == [code |-> "none", uriType |-> "none", http |-> PutRaised, upd |-> "none",
           req |-> NoReq, bento |-> NoBento, listReq |-> NoListReq,
           confirmed |-> NoTag, deleteReq |-> NoTag,
           uri |-> NoUri, path |-> NoLoc, pushPath |-> NoLoc, derived |-> {},
           loadFrom |-> NoInput, addUri |-> NoAddUri, putUrl |-> NoUrl]
\* Per call: the RPCs issued (get, add, update, list, delete, containerize),
\* the Update RPCs among them that carried Done or Error (terminal), the
\* backend writes, the PUTs, the retrievals, the confirmations asked, the
\* bundles listed, and the deviations of the environment (a failure answer,
\* a declined confirmation, another client's interference).
ZeroCnt == [get |-> 0, add |-> 0, update |-> 0, terminal |-> 0, list |-> 0,
            delete |-> 0, containerize |-> 0, write |-> 0, put |-> 0, retrieve |-> 0,
            confirm |-> 0, listed |-> 0, fault |-> 0, rmtree |-> 0, yes |-> 0]

Tally(c, f, bad) ==
    [cnt EXCEPT ![c][f] = @ + 1, ![c].fault = IF bad THEN @ + 1 ELSE @]

---------------------------------------------------------------------------
(* The authority (YataiService) and the storage backends *)

\* Whether the authority may answer a request about ref with a failure code.
Answers(ref) == IF ref \in FaultRefs THEN {TRUE, FALSE} ELSE {TRUE}

GetBentoCode(reg, ref, up) ==
    IF ~up THEN INTERNAL
    ELSE IF ref \in DOMAIN reg THEN OK ELSE NOT_FOUND

AddBentoCode(reg, ref, up) ==
    IF ~up THEN INTERNAL
    ELSE IF ref \in DOMAIN reg THEN ALREADY_EXISTS ELSE OK

NewBento(uriType) ==
    [status |-> "PENDING", percentage |-> NoPercentage, uriType |-> uriType,
     labels |-> EmptyMap]

AddBentoTable(reg, ref, uriType, up) ==
    IF AddBentoCode(reg, ref, up) = OK
    THEN [r \in (DOMAIN reg) \cup {ref} |-> IF r = ref THEN NewBento(uriType) ELSE reg[r]]
    ELSE reg

UpdateBentoTable(reg, ref, status, percentage, labels, up) ==
    IF up /\ ref \in DOMAIN reg
    THEN [reg EXCEPT ![ref] = [@ EXCEPT !.status = status, !.percentage = percentage,
                                        !.labels = labels]]
    ELSE reg

UpdateBentoCode(reg, ref, up) ==
    IF ~up THEN INTERNAL
    ELSE IF ref \in DOMAIN reg THEN OK ELSE NOT_FOUND

DeleteBentoCode(reg, ref, up) ==
    IF ~up THEN INTERNAL
    ELSE IF ref \in DOMAIN reg THEN OK ELSE NOT_FOUND

DeleteBentoTable(reg, ref, up) ==
    IF DeleteBentoCode(reg, ref, up) = OK
    THEN [r \in (DOMAIN reg) \ {ref} |-> reg[r]]
    ELSE reg

ContainerizeBentoCode(reg, ref, up) ==
    IF ~up THEN INTERNAL
    ELSE IF ref \in DOMAIN reg THEN OK ELSE NOT_FOUND

\* BentoUri of a Get response: the direct uri and, for the object stores, a
\* presigned URL to read the archive from.
BentoUri(ref, bento) ==
    [type |-> bento.uriType,
     uri |-> IF bento.uriType = "LOCAL" THEN [scheme |-> "file", ref |-> ref]
             ELSE IF bento.uriType = "S3" THEN [scheme |-> "s3", ref |-> ref]
             ELSE IF bento.uriType = "GCS" THEN [scheme |-> "gs", ref |-> ref]
             ELSE NoLoc,
     s3_presigned_url |-> IF bento.uriType = "S3"
                          THEN [scheme |-> "s3-presigned", ref |-> ref] ELSE NoLoc,
     gcs_presigned_url |-> IF bento.uriType = "GCS"
                           THEN [scheme |-> "gcs-presigned", ref |-> ref] ELSE NoLoc]

\* The BentoUri messages a response may carry: each field empty or set, in
\* every combination.
DirectLocs == [scheme : {"file", "s3", "gs"}, ref : FaultRefs]
UriRecords ==
    [type : UriTypes,
     uri : DirectLocs \cup {NoLoc},
     s3_presigned_url : [scheme : {"s3-presigned"}, ref : FaultRefs] \cup {NoLoc},
     gcs_presigned_url : [scheme : {"gcs-presigned"}, ref : FaultRefs] \cup {NoLoc}]

\* safe_retrieve: whether the bundle at path can be fetched from the storage
\* st, and the tree that a copy (directory) or an extraction (archive) yields.
Retrievable(path, st) ==
    path.scheme \in {"file", "s3-presigned", "gcs-presigned"} /\ path.ref \in DOMAIN st
Retrieved(content) == content.tree

RemoveKey(f, k) == [r \in (DOMAIN f) \ {k} |-> f[r]]
PutKey(f, k, v) == [r \in (DOMAIN f) \cup {k} |-> IF r = k THEN v ELSE f[r]]

---------------------------------------------------------------------------
(* upload_from_dir *)

\* The YataiService the running upload_from_dir talks to: pull uploads to
\* the local one (line 133), every other call to self.yatai_service.
Side(c) == IF args[c].op = "pull" THEN "local" ELSE "bound"
Bentos(c) == IF Side(c) = "local" THEN localBentos ELSE bentos
Store(c) == IF Side(c) = "local" THEN localStore ELSE store

SetBentos(c, new) ==
    IF Side(c) = "local"
    THEN localBentos' = new /\ UNCHANGED bentos
    ELSE bentos' = new /\ UNCHANGED localBentos

SetStore(c, new) ==
    IF Side(c) = "local"
    THEN localStore' = new /\ UNCHANGED store
    ELSE store' = new /\ UNCHANGED localStore

\* lines 119 and 133-136: when the upload that pull runs inside its
\* TempDirectory block returns or raises, the block removes the directory.
LeaveTempDirectory(c) ==
    disk' = IF args[c].op = "pull" /\ pc'[c] = "idle" /\ TmpBundle(c) \in DOMAIN disk
            THEN RemoveKey(disk, TmpBundle(c))
            ELSE disk

Finish(c, how) ==
    /\ pc' = [pc EXCEPT ![c] = "idle"]
    /\ result' = [result EXCEPT ![c] = how]

\* lines 156-159: the metadata of the saved bundle, with the labels merged in
UploadMeta(d, labels) ==
    [name |-> d.name, version |-> d.version,
     labels |-> IF labels # EmptyMap THEN MapUpdate(DirLabels(d), labels)
                ELSE DirLabels(d)]

\* lines 157-158: a non-empty labels argument is validated before any RPC
LabelsRejected(labels) == labels # EmptyMap /\ ~ValidLabels(labels)

\* lines 153-159: read the metadata, validate and merge the labels
UploadStart(c, d, labels) ==
    /\ pc[c] = "idle"
    /\ calls[c] < MaxCalls
    /\ calls' = [calls EXCEPT ![c] = @ + 1]
    /\ args' = [args EXCEPT ![c] = [NoArgs EXCEPT !.op = "upload", !.dir = d,
                                                  !.labels = labels]]
    /\ resp' = [resp EXCEPT ![c] = NoResp]
    /\ cnt' = [cnt EXCEPT ![c] = ZeroCnt]
    /\ pre' = [pre EXCEPT ![c] = bentos]
    /\ IF LabelsRejected(labels)
       THEN /\ meta' = [meta EXCEPT ![c] = UploadMeta(d, EmptyMap)]
            /\ Finish(c, "labels_invalid")
       ELSE /\ meta' = [meta EXCEPT ![c] = UploadMeta(d, labels)]
            /\ result' = [result EXCEPT ![c] = "running"]
            /\ pc' = [pc EXCEPT ![c] = "up_get"]
    /\ UNCHANGED <<bentos, store, offset, page, idx, localVars, cliVars>>

\* The positions inside upload_from_dir.
UploadPcs == {"up_get", "up_add", "up_copy", "up_done", "up_uploading", "up_put",
              "up_error"}

\* The pre-check without its OK branch: an existing reference goes on to Add.
UploadGetNextNoCheck(code) ==
    IF code # OK /\ code # NOT_FOUND THEN "yatai_access_failed" ELSE "up_add"

\* The pre-check taking an existing reference as a destination to write to.
UploadGetNextOverwrite(code) ==
    IF code = OK THEN "up_copy"
    ELSE IF code # NOT_FOUND THEN "yatai_access_failed"
    ELSE "up_add"

\* The pre-check taking a registered reference as a transfer to resume.
UploadGetNextResumes(code) ==
    IF code = OK THEN "up_uploading"
    ELSE IF code # NOT_FOUND THEN "yatai_access_failed"
    ELSE "up_add"

\* The pre-check going on to Add after any answer that is not OK.
UploadGetNextAnyAdds(code) ==
    IF code = OK THEN "already_registered" ELSE "up_add"

\* lines 161-182: the pre-check Get
UploadGetNext(code) ==
    IF code = OK THEN "already_registered"
    ELSE IF code # NOT_FOUND THEN "yatai_access_failed"
    ELSE "up_add"

UploadGet(c) ==
    /\ pc[c] = "up_get"
    /\ \E up \in Answers(RefOf(meta[c])) :
         LET code == GetBentoCode(Bentos(c), RefOf(meta[c]), up)
             next == UploadGetNext(code)
         IN  /\ resp' = [resp EXCEPT ![c].code = code]
             /\ cnt' = Tally(c, "get", ~up)
             /\ IF next \in UploadPcs
                THEN pc' = [pc EXCEPT ![c] = next] /\ UNCHANGED result
                ELSE Finish(c, next)
    /\ LeaveTempDirectory(c)
    /\ UNCHANGED <<bentos, store, localBentos, localStore, args, meta, offset, page, idx,
                   pre, calls, cliVars>>

\* The Local backend taking the branch of the object stores.
UploadDispatchAllRemote(uriType) ==
    IF uriType \in {"LOCAL", "S3", "GCS"} THEN "up_uploading" ELSE "uri_not_supported"

\* The object-store branch going to the PUT without the Uploading update.
UploadDispatchNoUploading(uriType) ==
    IF uriType = "LOCAL" THEN "up_copy"
    ELSE IF uriType = "S3" \/ uriType = "GCS" THEN "up_put"
    ELSE "uri_not_supported"

\* lines 197-256: which branch the Add response's uri type selects
UploadDispatch(uriType) ==
    IF uriType = "LOCAL" THEN "up_copy"
    ELSE IF uriType = "S3" \/ uriType = "GCS" THEN "up_uploading"
    ELSE "uri_not_supported"

\* The Add response's status not being checked.
AddNextNoCheck(code, uriType) == UploadDispatch(uriType)

\* Only an Add that the authority could not answer taken as a failure.
AddNextOnlyInternalFails(code, uriType) ==
    IF code = INTERNAL THEN "add_failed" ELSE UploadDispatch(uriType)

\* A failed Add sent again.
AddNextRetries(code, uriType) ==
    IF code # OK THEN "up_add" ELSE UploadDispatch(uriType)

\* lines 189-195, then the dispatch: what follows the Add response
AddNext(code, uriType) ==
    IF code # OK THEN "add_failed" ELSE UploadDispatch(uriType)

\* The uri of an OK Add response to call number k of client c.
AddResponseUri(c, k, ref, uriType) ==
    [type |-> uriType,
     s3_presigned_url |-> IF uriType = "S3"
                          THEN [scheme |-> "s3-presigned", ref |-> ref, by |-> c,
                                call |-> k]
                          ELSE NoUrl,
     gcs_presigned_url |-> IF uriType = "GCS"
                           THEN [scheme |-> "gcs-presigned", ref |-> ref, by |-> c,
                                 call |-> k]
                           ELSE NoUrl]

\* lines 183-195 and the dispatch of lines 197, 213, 252
UploadAdd(c) ==
    /\ pc[c] = "up_add"
    /\ \E up \in Answers(RefOf(meta[c])), uriType \in UriTypes :
         LET ref == RefOf(meta[c])
             code == AddBentoCode(Bentos(c), ref, up)
             next == AddNext(code, uriType)
         IN  /\ SetBentos(c, AddBentoTable(Bentos(c), ref, uriType, up))
             /\ resp' = [resp EXCEPT ![c].code = code,
                                     ![c].uriType = IF code = OK THEN uriType ELSE "none",
                                     ![c].addUri = IF code = OK
                                                   THEN AddResponseUri(c, calls[c], ref,
                                                                       uriType)
                                                   ELSE NoAddUri]
             /\ cnt' = Tally(c, "add", ~up)
             /\ IF next \in UploadPcs
                THEN pc' = [pc EXCEPT ![c] = next] /\ UNCHANGED result
                ELSE Finish(c, next)
    /\ LeaveTempDirectory(c)
    /\ UNCHANGED <<store, localStore, args, meta, offset, page, idx, pre, calls, cliVars>>

\* The copy into a destination that is not removed first: the files of the
\* old tree stay next to those of the new one.
LocalCopyMerge(st, ref, tree) ==
    PutKey(st, ref, Dir(IF ref \in DOMAIN st /\ st[ref].tree # tree
                        THEN "merged" ELSE tree))

\* lines 198-201: the destination is removed if it exists, then the tree is
\* copied to it
LocalCopy(st, ref, tree) == PutKey(RemoveKey(st, ref), ref, Dir(tree))

\* lines 198-201: rmtree of an existing destination, then copytree; either may raise
UploadCopy(c) ==
    /\ pc[c] = "up_copy"
    /\ \E copied \in BOOLEAN :
         /\ SetStore(c, LocalCopy(Store(c), RefOf(meta[c]),
                                  IF copied THEN args[c].dir.tree ELSE PartialTree))
         /\ cnt' = [Tally(c, "write", ~copied) EXCEPT
                       ![c].rmtree = IF RefOf(meta[c]) \in DOMAIN Store(c)
                                     THEN @ + 1 ELSE @]
         /\ IF copied
            THEN pc' = [pc EXCEPT ![c] = "up_done"] /\ UNCHANGED result
            ELSE Finish(c, "copy_raised")
    /\ LeaveTempDirectory(c)
    /\ UNCHANGED <<bentos, localBentos, args, meta, resp, offset, page, idx, pre, calls, cliVars>>

\* lines 258-269: _update_bento_upload_progress; the response is not looked at
UpdateProgress(c, status, percentage) ==
    \E up \in Answers(RefOf(meta[c])) :
        /\ SetBentos(c, UpdateBentoTable(Bentos(c), RefOf(meta[c]), status, percentage,
                                          meta[c].labels, up))
        /\ resp' = [resp EXCEPT ![c].upd = UpdateBentoCode(Bentos(c), RefOf(meta[c]), up),
                                ![c].req = [status |-> status, percentage |-> percentage]]
        /\ cnt' = [cnt EXCEPT ![c].update = @ + 1,
                              ![c].terminal = IF status \in {"DONE", "ERROR"}
                                              THEN @ + 1 ELSE @,
                              ![c].fault = IF up THEN @ ELSE @ + 1]

\* lines 203-212 and 242-251: the Done update, then return the uri
UploadDone(c) ==
    /\ pc[c] = "up_done"
    /\ UpdateProgress(c, "DONE", NoPercentage)
    /\ Finish(c, "returned")
    /\ LeaveTempDirectory(c)
    /\ UNCHANGED <<store, localStore, args, meta, offset, page, idx, pre, calls, cliVars>>

\* lines 215-217: the Uploading update at 0 percent
UploadUploading(c) ==
    /\ pc[c] = "up_uploading"
    /\ UpdateProgress(c, "UPLOADING", 0)
    /\ pc' = [pc EXCEPT ![c] = "up_put"]
    /\ UNCHANGED <<store, localStore, disk, args, meta, offset, page, idx, result, pre,
                   calls, cliVars>>

\* lines 224-231: the URL the archive is PUT to
PutUrl(uri) ==
    IF uri.type = "S3" THEN uri.s3_presigned_url ELSE uri.gcs_presigned_url

\* A failed PUT tried again with the URL at hand.
PutNextRetries(http) == IF http # 200 THEN "up_put" ELSE "up_done"

\* line 233: what the client does with the PUT response
PutNext(http) == IF http # 200 THEN "up_error" ELSE "up_done"

\* The object store keeps the archive when it answers 2xx.
PutStored(http) == http \in 200..299

\* lines 219-233: tar the directory and PUT it to the presigned URL
UploadPut(c) ==
    /\ pc[c] = "up_put"
    /\ \E http \in HttpStatuses \cup {PutRaised} :
         /\ resp' = [resp EXCEPT ![c].http = http, ![c].putUrl = PutUrl(resp[c].addUri)]
         /\ SetStore(c, IF PutStored(http)
                         THEN PutKey(Store(c), RefOf(meta[c]),
                                     Tar(meta[c].name, args[c].dir.tree))
                         ELSE Store(c))
         /\ cnt' = [cnt EXCEPT ![c].put = @ + 1,
                               ![c].write = IF PutStored(http) THEN @ + 1 ELSE @,
                               ![c].fault = IF http # 200 THEN @ + 1 ELSE @]
         /\ IF http = PutRaised
            THEN Finish(c, "put_raised")
            ELSE pc' = [pc EXCEPT ![c] = PutNext(http)] /\ UNCHANGED result
    /\ LeaveTempDirectory(c)
    /\ UNCHANGED <<bentos, localBentos, args, meta, offset, page, idx, pre, calls, cliVars>>

\* lines 234-240: the Error update, then raise
UploadError(c) ==
    /\ pc[c] = "up_error"
    /\ UpdateProgress(c, "ERROR", NoPercentage)
    /\ Finish(c, "put_failed")
    /\ LeaveTempDirectory(c)
    /\ UNCHANGED <<store, localStore, args, meta, offset, page, idx, pre, calls, cliVars>>

\* The caller giving up (an interrupt, the end of the process) between the Add
\* response and the terminal update; an interrupted copy may leave a part of
\* the tree at the destination.
UploadAbort(c) ==
    /\ pc[c] \in UploadPcs \ {"up_get", "up_add"}
    /\ \E partial \in BOOLEAN :
         /\ partial => pc[c] = "up_copy"
         /\ SetStore(c, IF partial
                         THEN PutKey(Store(c), RefOf(meta[c]), Dir(PartialTree))
                         ELSE Store(c))
    /\ cnt' = [cnt EXCEPT ![c].fault = @ + 1]
    /\ Finish(c, "aborted")
    /\ LeaveTempDirectory(c)
    /\ UNCHANGED <<bentos, localBentos, args, meta, resp, offset, page, idx, pre, calls, cliVars>>

\* The steps of a running upload_from_dir.
UploadSteps(c) ==
    \/ UploadGet(c)
    \/ UploadAdd(c)
    \/ UploadCopy(c)
    \/ UploadDone(c)
    \/ UploadUploading(c)
    \/ UploadPut(c)
    \/ UploadError(c)

UploadNext(c) ==
    \/ \E d \in SavedDirs, labels \in UploadLabelArgs : UploadStart(c, d, labels)
    \/ UploadSteps(c)

---------------------------------------------------------------------------
(* list, get, _delete_bento_bundle and delete *)

delete_list_limit == 50

Min(a, b) == IF a < b THEN a ELSE b

\* The paging loop without its offset advance.
NextOffsetStuck(off) == off

\* The paging loop advancing by one bundle instead of one page.
NextOffsetByOne(off) == off + 1

\* line 459
NextOffset(off) == off + delete_list_limit

\* The authority's answer to List: the matching bundles in listing order,
\* cut to the window [off, off + limit).
ListBento(reg, name, sel, off, limit) ==
    LET match(r) == /\ r \in DOMAIN reg
                    /\ (name = NoName \/ r.name = name)
                    /\ (sel = NoSelector \/ LabelMatch(reg[r].labels, sel))
        all == SelectSeq(AllRefsSeq, match)
    IN  SubSeq(all, off + 1, Min(off + limit, Len(all)))

\* delete without the check of lines 422-427.
DeleteModeNoCheck(tag, name, version) ==
    IF tag # NoTag THEN "single" ELSE "bulk"

\* delete with the check of lines 422-427 firing on tag and name alone.
DeleteModeTagAndName(tag, name, version) ==
    IF tag # NoTag /\ name # NoName THEN "too_much_arguments"
    ELSE IF tag # NoTag THEN "single"
    ELSE "bulk"

\* lines 422-437: which branch of delete the arguments select
DeleteMode(tag, name, version) ==
    IF tag # NoTag /\ name # NoName /\ version # NoVersion THEN "too_much_arguments"
    ELSE IF tag # NoTag THEN "single"
    ELSE IF name # NoName /\ tag # NoTag THEN "name_version"
    ELSE "bulk"

\* prune leaving the name filter in place.
ListNameKept(name, prune) == name

\* lines 439-443: the filter of the bulk delete's List requests
ListName(name, prune) == IF prune THEN NoName ELSE name

\* The label selector never reaching the List request.
ListSelectorDropped(sel, prune) == NoSelector

\* lines 439-443
ListSelector(sel, prune) == IF prune THEN NoSelector ELSE sel

Mode(c) == DeleteMode(args[c].tag, args[c].name, args[c].version)

\* The bento_tag _delete_bento_bundle is running on.
CurTag(c) ==
    IF Mode(c) = "single" THEN args[c].tag
    ELSE IF Mode(c) = "name_version"
    THEN [name |-> args[c].name, version |-> args[c].version]
    ELSE page[c][idx[c] + 1]

\* lines 420-451
DeleteStart(c, tag, sel, name, version, prune, confirm) ==
    /\ pc[c] = "idle"
    /\ calls[c] < MaxCalls
    /\ calls' = [calls EXCEPT ![c] = @ + 1]
    /\ args' = [args EXCEPT ![c] = [NoArgs EXCEPT !.op = "delete", !.tag = tag,
                                     !.selector = sel, !.name = name,
                                     !.version = version, !.prune = prune,
                                     !.confirm = confirm]]
    /\ meta' = [meta EXCEPT ![c] = NoMeta]
    /\ resp' = [resp EXCEPT ![c] = NoResp]
    /\ cnt' = [cnt EXCEPT ![c] = ZeroCnt]
    /\ pre' = [pre EXCEPT ![c] = bentos]
    /\ offset' = [offset EXCEPT ![c] = 0]
    /\ page' = [page EXCEPT ![c] = <<>>]
    /\ idx' = [idx EXCEPT ![c] = 0]
    /\ LET mode == DeleteMode(tag, name, version)
       IN  IF mode = "too_much_arguments"
           THEN Finish(c, mode)
           ELSE /\ result' = [result EXCEPT ![c] = "running"]
                /\ pc' = [pc EXCEPT ![c] = IF mode = "bulk" THEN "del_list" ELSE "del_get"]
    /\ UNCHANGED <<bentos, store, localVars, cliVars>>

\* lines 453-458: the arguments of the paging loop's call of list
DeleteListReq(c) ==
    [name |-> ListName(args[c].name, args[c].prune),
     sel |-> ListSelector(args[c].selector, args[c].prune),
     offset |-> offset[c], limit |-> delete_list_limit]

\* lines 452-462: one List RPC of the paging loop (list, lines 345-361)
DeleteList(c) ==
    /\ pc[c] = "del_list"
    /\ \E up \in BOOLEAN :
         LET req == DeleteListReq(c)
             bento_list == ListBento(bentos, req.name, req.sel, req.offset, req.limit)
         IN  /\ cnt' = [cnt EXCEPT ![c].list = @ + 1,
                                   ![c].listed = IF up THEN @ + Len(bento_list) ELSE @,
                                   ![c].fault = IF up THEN @ ELSE @ + 1]
             /\ resp' = [resp EXCEPT ![c].code = IF up THEN OK ELSE INTERNAL,
                                     ![c].listReq = req]
             /\ IF ~up
                THEN Finish(c, "list_failed") /\ UNCHANGED <<offset, page, idx>>
                ELSE /\ page' = [page EXCEPT ![c] = bento_list]
                     /\ idx' = [idx EXCEPT ![c] = 0]
                     /\ offset' = [offset EXCEPT ![c] = NextOffset(@)]
                     /\ IF Len(bento_list) = 0
                        THEN Finish(c, "returned")
                        ELSE pc' = [pc EXCEPT ![c] = "del_get"] /\ UNCHANGED result
    /\ UNCHANGED <<bentos, store, args, meta, pre, calls, cliVars, localVars>>

\* What follows the return of _delete_bento_bundle: the end of a single
\* delete (line 431), or the next bundle of the page, or the next page
\* (lines 452-467).
AfterBundle(c) ==
    IF Mode(c) # "bulk"
    THEN Finish(c, "returned") /\ UNCHANGED idx
    ELSE /\ idx' = [idx EXCEPT ![c] = @ + 1]
         /\ pc' = [pc EXCEPT ![c] = IF idx[c] + 1 = Len(page[c])
                                    THEN "del_list" ELSE "del_get"]
         /\ UNCHANGED result

\* Whether the user may decline the confirmation for ref.
ConfirmAnswers(ref) == IF ref \in FaultRefs THEN {TRUE, FALSE} ELSE {TRUE}

\* The confirmation asked and its answer not looked at.
ConfirmNextIgnored(require_confirm, yes) == "del_rpc"

\* line 365: a declined confirmation returns before the RPC
ConfirmNext(require_confirm, yes) ==
    IF require_confirm /\ ~yes THEN "declined" ELSE "del_rpc"

\* lines 364-366: get(bento_tag) (lines 296-313), then the confirmation
DeleteGet(c) ==
    /\ pc[c] = "del_get"
    /\ HasColon(CurTag(c))
    /\ \E up \in Answers(CurTag(c)), yes \in ConfirmAnswers(CurTag(c)) :
         LET code == GetBentoCode(bentos, CurTag(c), up)
             asked == code = OK /\ args[c].confirm
         IN  /\ asked \/ yes
             /\ resp' = [resp EXCEPT ![c].code = code,
                                     ![c].confirmed = IF asked /\ yes
                                                      THEN CurTag(c) ELSE NoTag]
             /\ cnt' = [cnt EXCEPT ![c].get = @ + 1,
                                   ![c].confirm = IF asked THEN @ + 1 ELSE @,
                                   ![c].yes = IF asked /\ yes THEN @ + 1 ELSE @,
                                   ![c].fault = IF code = OK /\ yes THEN @ ELSE @ + 1]
             /\ IF code # OK
                THEN Finish(c, "get_failed") /\ UNCHANGED idx
                ELSE IF ConfirmNext(args[c].confirm, yes) = "del_rpc"
                THEN pc' = [pc EXCEPT ![c] = "del_rpc"] /\ UNCHANGED <<result, idx>>
                ELSE AfterBundle(c)
    /\ UNCHANGED <<bentos, store, args, meta, offset, page, pre, calls, cliVars, localVars>>

\* lines 367-383: the DangerouslyDelete RPC; a non-OK answer is logged
DeleteRpc(c) ==
    /\ pc[c] = "del_rpc"
    /\ \E up \in Answers(CurTag(c)) :
         /\ bentos' = DeleteBentoTable(bentos, CurTag(c), up)
         /\ store' = IF DeleteBentoCode(bentos, CurTag(c), up) = OK
                        /\ CurTag(c) \in DOMAIN store
                     THEN RemoveKey(store, CurTag(c)) ELSE store
         /\ resp' = [resp EXCEPT ![c].code = DeleteBentoCode(bentos, CurTag(c), up),
                                 ![c].deleteReq = CurTag(c)]
         /\ cnt' = Tally(c, "delete", DeleteBentoCode(bentos, CurTag(c), up) # OK)
    /\ AfterBundle(c)
    /\ UNCHANGED <<args, meta, offset, page, pre, calls, cliVars, localVars>>

\* Another client's DangerouslyDelete of a bundle that client c has listed
\* and not yet handled.
ForeignDelete(c) ==
    /\ pc[c] = "del_get"
    /\ Mode(c) = "bulk"
    /\ \E i \in (idx[c] + 1)..Len(page[c]) :
         /\ page[c][i] \in FaultRefs \cap DOMAIN bentos
         /\ bentos' = DeleteBentoTable(bentos, page[c][i], TRUE)
         /\ store' = IF page[c][i] \in DOMAIN store
                     THEN RemoveKey(store, page[c][i]) ELSE store
    /\ cnt' = [cnt EXCEPT ![c].fault = @ + 1]
    /\ UNCHANGED <<pc, args, meta, resp, offset, page, idx, result, pre, calls, cliVars, localVars>>

\* lines 364 and 296-300: get(bento_tag) raises on a tag without ':'
DeleteGetMalformed(c) ==
    /\ pc[c] = "del_get"
    /\ ~HasColon(CurTag(c))
    /\ Finish(c, "name_or_version_missing")
    /\ UNCHANGED <<bentos, store, args, meta, resp, cnt, offset, page, idx, pre, calls, cliVars,
                   localVars>>

DeleteSteps(c) ==
    \/ DeleteList(c)
    \/ DeleteGet(c)
    \/ DeleteRpc(c)

---------------------------------------------------------------------------
(* get, list, containerize, download_to_directory, push and pull *)

\* What every call resets when it starts.
CallStart(c, a) ==
    /\ pc[c] = "idle"
    /\ calls[c] < MaxCalls
    /\ calls' = [calls EXCEPT ![c] = @ + 1]
    /\ args' = [args EXCEPT ![c] = a]
    /\ meta' = [meta EXCEPT ![c] = NoMeta]
    /\ resp' = [resp EXCEPT ![c] = NoResp]
    /\ cnt' = [cnt EXCEPT ![c] = ZeroCnt]
    /\ pre' = [pre EXCEPT ![c] = bentos]
    /\ page' = [page EXCEPT ![c] = <<>>]
    /\ UNCHANGED <<bentos, store, offset, idx, localVars, cliVars>>

\* The methods that take a NAME:VERSION string.
TagOps == {"get", "containerize", "push", "pull"}

\* lines 296-300 (get; push and pull call get first, lines 87 and 118) and
\* lines 482-486 (containerize): the ':' check comes before the RPC
TagCallStart(c, op, tag, with_labels) ==
    /\ CallStart(c, [NoArgs EXCEPT !.op = op, !.tag = tag, !.with_labels = with_labels])
    /\ IF ~HasColon(tag)
       THEN Finish(c, "name_or_version_missing")
       ELSE /\ result' = [result EXCEPT ![c] = "running"]
            /\ pc' = [pc EXCEPT ![c] = IF op = "containerize" THEN "ctn_rpc"
                                       ELSE "get_rpc"]

\* lines 305-313: what get does with the response
GetOutcome(code) == IF code # OK THEN "get_failed" ELSE "returned"

\* push asking the YataiService its client is bound to.
GetBentosBound(c) == bentos

\* The table the Get of the call is answered from: push asks the local
\* YataiService (lines 85-87), get and pull ask self.yatai_service.
GetBentos(c) == IF args[c].op = "push" THEN localBentos ELSE bentos

\* lines 95-99 and 127-131: the labels that push and pull hand to
\* upload_from_dir; None is the empty map
PassedLabels(op, with_labels, bento) ==
    IF op = "push" /\ ~with_labels THEN EmptyMap ELSE bento.labels

\* lines 301-313: the GetBento RPC of get, and of the get that push and
\* pull start with
GetRpc(c) ==
    /\ pc[c] = "get_rpc"
    /\ \E up \in Answers(args[c].tag) :
         LET tag == args[c].tag
             code == GetBentoCode(GetBentos(c), tag, up)
             bento == IF code = OK THEN GetBentos(c)[tag] ELSE NoBento
         IN  /\ resp' = [resp EXCEPT ![c].code = code, ![c].bento = bento]
             /\ cnt' = Tally(c, "get", ~up)
             /\ args' = [args EXCEPT ![c].labels =
                           PassedLabels(args[c].op, args[c].with_labels, bento)]
             /\ IF GetOutcome(code) # "returned" \/ args[c].op = "get"
                THEN Finish(c, GetOutcome(code))
                ELSE /\ pc' = [pc EXCEPT ![c] = IF args[c].op = "pull" THEN "retrieve"
                                                ELSE "up_load"]
                     /\ UNCHANGED result
    /\ UNCHANGED <<bentos, store, meta, offset, page, idx, pre, calls, cliVars, localVars>>

\* lines 497-504: what containerize does with the response
ContainerizeOutcome(code) == IF code # OK THEN "containerize_failed" ELSE "returned"

\* lines 487-504: the ContainerizeBento RPC
ContainerizeRpc(c) ==
    /\ pc[c] = "ctn_rpc"
    /\ \E up \in Answers(args[c].tag) :
         LET code == ContainerizeBentoCode(bentos, args[c].tag, up)
         IN  /\ resp' = [resp EXCEPT ![c].code = code]
             /\ cnt' = Tally(c, "containerize", ~up)
             /\ Finish(c, ContainerizeOutcome(code))
    /\ UNCHANGED <<bentos, store, args, meta, offset, page, idx, pre, calls, cliVars, localVars>>

\* lines 345-352: list builds its request; nothing is checked
ListStart(c, name, sel, off, limit) ==
    /\ CallStart(c, [NoArgs EXCEPT !.op = "list", !.name = name, !.selector = sel,
                                   !.offset = off, !.limit = limit])
    /\ result' = [result EXCEPT ![c] = "running"]
    /\ pc' = [pc EXCEPT ![c] = "list_rpc"]

\* list raising on an OK response that carries no bundle.
ListOutcomeEmptyRaises(code, bento_list) ==
    IF code # OK \/ Len(bento_list) = 0 THEN "list_failed" ELSE "returned"

\* lines 355-361: what list does with the response
ListOutcome(code, bento_list) == IF code # OK THEN "list_failed" ELSE "returned"

\* lines 354-361: the ListBento RPC; result.bentos is returned as it is
ListRpc(c) ==
    /\ pc[c] = "list_rpc"
    /\ \E up \in BOOLEAN :
         LET code == IF up THEN OK ELSE INTERNAL
             bento_list == IF up
                           THEN ListBento(bentos, args[c].name, args[c].selector,
                                          args[c].offset, args[c].limit)
                           ELSE <<>>
         IN  /\ resp' = [resp EXCEPT ![c].code = code,
                                     ![c].listReq = [name |-> args[c].name,
                                                     sel |-> args[c].selector,
                                                     offset |-> args[c].offset,
                                                     limit |-> args[c].limit]]
             /\ cnt' = [cnt EXCEPT ![c].list = @ + 1,
                                   ![c].listed = @ + Len(bento_list),
                                   ![c].fault = IF up THEN @ ELSE @ + 1]
             /\ page' = [page EXCEPT ![c] =
                           IF ListOutcome(code, bento_list) = "returned"
                           THEN bento_list ELSE <<>>]
             /\ Finish(c, ListOutcome(code, bento_list))
    /\ UNCHANGED <<bentos, store, args, meta, offset, idx, pre, calls, cliVars, localVars>>

\* lines 88-93: the location push reads the bundle from
PushBundlePath(uri) ==
    IF uri.s3_presigned_url # NoLoc THEN uri.s3_presigned_url
    ELSE IF uri.gcs_presigned_url # NoLoc THEN uri.gcs_presigned_url
    ELSE uri.uri

\* The GCS presigned URL preferred to the S3 one.
BundlePathGcsFirst(uri) ==
    IF uri.gcs_presigned_url # NoLoc THEN uri.gcs_presigned_url
    ELSE IF uri.s3_presigned_url # NoLoc THEN uri.s3_presigned_url
    ELSE uri.uri

\* lines 272-277: a presigned URL is preferred to the uri
BundlePath(uri) ==
    IF uri.s3_presigned_url # NoLoc THEN uri.s3_presigned_url
    ELSE IF uri.gcs_presigned_url # NoLoc THEN uri.gcs_presigned_url
    ELSE uri.uri

\* download_to_directory(bento_pb, target_dir) with the Bento message of a
\* registered reference.
DownloadStart(c, ref, target) ==
    /\ ref \in DOMAIN bentos
    /\ CallStart(c, [NoArgs EXCEPT !.op = "download", !.tag = ref, !.target = target])
    /\ result' = [result EXCEPT ![c] = "running"]
    /\ pc' = [pc EXCEPT ![c] = "retrieve"]

\* pull retrieving into a directory the caller names.
PullTargetUserDir(c) == UserDir

\* lines 119-121: the 'bundle' entry of a TempDirectory made for this call
PullTarget(c) == TmpBundle(c)

TargetDir(c) == IF args[c].op = "pull" THEN PullTarget(c) ELSE args[c].target

\* The Bento message download_to_directory is given.
BentoPb(c) == IF args[c].op = "pull" THEN resp[c].bento ELSE pre[c][args[c].tag]

\* lines 271-279 (called at line 122 by pull): safe_retrieve refuses an
\* existing target, fails when the bundle cannot be fetched, and otherwise
\* materializes the bundle at the target
Retrieve(c) ==
    /\ pc[c] = "retrieve"
    /\ \E fetched \in Answers(args[c].tag) :
         LET path == BundlePath(BentoUri(args[c].tag, BentoPb(c)))
             how == IF TargetDir(c) \in DOMAIN disk THEN "target_exists"
                    ELSE IF ~fetched \/ ~Retrievable(path, store) THEN "retrieve_failed"
                    ELSE "retrieved"
         IN  /\ how = "target_exists" => fetched
             /\ cnt' = Tally(c, "retrieve", ~fetched)
             /\ disk' = IF how = "retrieved"
                        THEN PutKey(disk, TargetDir(c), Retrieved(store[path.ref]))
                        ELSE disk
             /\ IF how # "retrieved" THEN Finish(c, how)
                ELSE IF args[c].op = "pull"
                THEN pc' = [pc EXCEPT ![c] = "up_load"] /\ UNCHANGED result
                ELSE Finish(c, "returned")
    /\ UNCHANGED <<bentos, store, args, meta, resp, offset, page, idx, pre, calls, cliVars,
                   localBentos, localStore>>

\* The saved bundle that the upload_from_dir inside push or pull reads:
\* the local YataiService's copy (push), the retrieved directory (pull).
LoadableDir(c) ==
    IF args[c].op = "pull" THEN TmpBundle(c) \in DOMAIN disk
    ELSE Retrievable(PushBundlePath(BentoUri(args[c].tag, resp[c].bento)), localStore)

LoadedTree(c) ==
    IF args[c].op = "pull" THEN disk[TmpBundle(c)] ELSE Retrieved(localStore[args[c].tag])

\* lines 101 and 133-136, then 156-159: push and pull enter upload_from_dir,
\* which reads the metadata of the bundle and validates the labels
UploadLoad(c) ==
    /\ pc[c] = "up_load"
    /\ LET d == [name |-> args[c].tag.name, version |-> args[c].tag.version,
                 tree |-> LoadedTree(c)]
       IN  IF ~LoadableDir(c)
           THEN Finish(c, "load_failed") /\ UNCHANGED <<args, meta>>
           ELSE /\ args' = [args EXCEPT ![c].dir = d]
                /\ IF LabelsRejected(args[c].labels)
                   THEN /\ meta' = [meta EXCEPT ![c] = UploadMeta(d, EmptyMap)]
                        /\ Finish(c, "labels_invalid")
                   ELSE /\ meta' = [meta EXCEPT ![c] = UploadMeta(d, args[c].labels)]
                        /\ pc' = [pc EXCEPT ![c] = "up_get"]
                        /\ UNCHANGED result
    /\ LeaveTempDirectory(c)
    /\ UNCHANGED <<bentos, store, resp, cnt, offset, page, idx, pre, calls, cliVars, localBentos,
                   localStore>>

\* os.path.isdir, is_s3_url, is_gcs_url on the argument of load
IsDir(input, dk) == input.form = "path" /\ input.path \in DOMAIN dk
IsS3Url(input) == input.form = "url" /\ input.loc.scheme = "s3"
IsGcsUrl(input) == input.form = "url" /\ input.loc.scheme = "gs"

\* load asking the authority about every argument.
LoadsDirectlyNever(input, dk) == FALSE

\* line 523: the arguments that load hands to load_from_dir as they are
LoadsDirectly(input, dk) == IsDir(input, dk) \/ IsS3Url(input) \/ IsGcsUrl(input)

\* line 296: ':' in bento, for the strings load may be given
InputHasColon(input) ==
    input.form = "url" \/ (input.form = "tag" /\ HasColon(input.tag))

\* lines 523-526 and 296-300: load takes its argument as the bundle path, or
\* calls get, which rejects a string without ':' before the RPC
LoadStart(c, input) ==
    /\ CallStart(c, [NoArgs EXCEPT !.op = "load", !.input = input, !.tag = input.tag])
    /\ IF LoadsDirectly(input, disk)
       THEN /\ result' = [result EXCEPT ![c] = "running"]
            /\ pc' = [pc EXCEPT ![c] = "load_dir"]
       ELSE IF ~InputHasColon(input)
       THEN Finish(c, "name_or_version_missing")
       ELSE /\ result' = [result EXCEPT ![c] = "running"]
            /\ pc' = [pc EXCEPT ![c] = "load_get"]

\* resolve_bento_bundle_uri: the location of the bundle of a Bento message
ResolveBentoBundleUri(uri) ==
    IF uri.s3_presigned_url # NoLoc THEN uri.s3_presigned_url
    ELSE IF uri.gcs_presigned_url # NoLoc THEN uri.gcs_presigned_url
    ELSE uri.uri

\* saved_bundle_path of load (lines 524 and 527)
SavedBundlePath(c) ==
    IF LoadsDirectly(args[c].input, disk) THEN args[c].input
    ELSE [NoInput EXCEPT !.form = "url",
                         !.loc = ResolveBentoBundleUri(BentoUri(args[c].tag,
                                                                resp[c].bento))]

\* lines 526 and 301-313: the GetBento RPC of load's call of get
LoadGet(c) ==
    /\ pc[c] = "load_get"
    /\ \E up \in Answers(args[c].tag) :
         LET code == GetBentoCode(bentos, args[c].tag, up)
         IN  /\ resp' = [resp EXCEPT ![c].code = code,
                                     ![c].bento = IF code = OK THEN bentos[args[c].tag]
                                                  ELSE NoBento]
             /\ cnt' = Tally(c, "get", ~up)
             /\ IF GetOutcome(code) # "returned"
                THEN Finish(c, GetOutcome(code))
                ELSE pc' = [pc EXCEPT ![c] = "load_dir"] /\ UNCHANGED result
    /\ UNCHANGED <<bentos, store, args, meta, offset, page, idx, pre, calls, cliVars, localVars>>

\* load_from_dir: whether a bundle can be loaded from the path
LoadsFrom(src, dk, st) ==
    IF src.form = "path" THEN src.path \in DOMAIN dk ELSE src.loc.ref \in DOMAIN st

\* line 528: load_from_dir(saved_bundle_path)
LoadFromDir(c) ==
    /\ pc[c] = "load_dir"
    /\ resp' = [resp EXCEPT ![c].loadFrom = SavedBundlePath(c)]
    /\ Finish(c, IF LoadsFrom(SavedBundlePath(c), disk, store)
                 THEN "returned" ELSE "load_failed")
    /\ UNCHANGED <<bentos, store, args, meta, cnt, offset, page, idx, pre, calls, cliVars,
                   localVars>>

\* The steps of the methods of this section.
CallSteps(c) ==
    \/ GetRpc(c)
    \/ ContainerizeRpc(c)
    \/ ListRpc(c)
    \/ Retrieve(c)
    \/ UploadLoad(c)

---------------------------------------------------------------------------
(* Initial states *)

\* A bundle that was registered and transferred before the behaviour starts.
DoneBento(ref) ==
    [status |-> "DONE", percentage |-> NoPercentage, uriType |-> "LOCAL",
     labels |-> IF ref.version % 2 = 1 THEN [k \in {"ci"} |-> "failed"] ELSE EmptyMap]

\* The registry that holds the first n references of the listing order.
Registry(n) == [r \in {AllRefsSeq[i] : i \in 1..n} |-> DoneBento(r)]
Storage(n) == [r \in {AllRefsSeq[i] : i \in 1..n} |-> Dir("tree1")]

\* No command of the command line running.
InitBuild ==
    /\ build_arg = <<>>
    /\ docker_build_args = <<>>
    /\ arg_i = 0
    /\ cmd = "idle"

\* lines 42-49: a Spinner as __init__ leaves it, on a terminal or not
InitSpin(ttys) ==
    /\ isatty \in ttys
    /\ busy = FALSE
    /\ spinner_visible = FALSE
    /\ screen_lock = "none"
    /\ spinner = 1
    /\ tpc = [t \in {"main", "spinner"} |-> IF t = "main" THEN "m_init" ELSE "t_idle"]
    /\ buf = <<>>
    /\ shown = 0

InitCli == InitBuild /\ InitSpin({TRUE})

InitClients ==
    /\ InitCli
    /\ pc = [c \in Clients |-> "idle"]
    /\ args = [c \in Clients |-> NoArgs]
    /\ meta = [c \in Clients |-> NoMeta]
    /\ resp = [c \in Clients |-> NoResp]
    /\ offset = [c \in Clients |-> 0]
    /\ page = [c \in Clients |-> <<>>]
    /\ idx = [c \in Clients |-> 0]
    /\ result = [c \in Clients |-> "none"]
    /\ cnt = [c \in Clients |-> ZeroCnt]
    /\ pre = [c \in Clients |-> EmptyMap]
    /\ calls = [c \in Clients |-> 0]

\* A local YataiService that holds nothing, and no directory on the disk.
InitLocal ==
    /\ localBentos = EmptyMap
    /\ localStore = EmptyMap
    /\ disk = EmptyMap

\* The storage of Storage(n), with a directory that an earlier bundle left at
\* the location of each reference of stale.
StaleStorage(n, stale) ==
    [r \in DOMAIN Storage(n) \cup stale |->
        IF r \in DOMAIN Storage(n) THEN Storage(n)[r] ELSE Dir(StaleTree)]

InitUpload ==
    /\ \E n \in 0..1, stale \in {{}} \cup {{r} : r \in FaultRefs} :
         bentos = Registry(n) /\ store = StaleStorage(n, stale)
    /\ InitClients
    /\ InitLocal

\* One caller issuing calls one after the other.
Caller == 1

NextUpload == UploadNext(Caller)

SpecUpload == InitUpload /\ [][NextUpload]_vars

\* delete with every combination of arguments, on a registry of a few bundles
TagArgs == {NoTag, MalformedTag} \cup FaultRefs

InitDelete ==
    /\ \E n \in 0..(MaxFaultRefs + 2) : bentos = Registry(n) /\ store = Storage(n)
    /\ InitClients
    /\ InitLocal

NextDelete ==
    \/ \E tag \in TagArgs, sel \in {NoSelector} \cup Selectors,
          name \in {NoName} \cup Names, version \in {NoVersion, 1},
          prune \in BOOLEAN, confirm \in BOOLEAN :
            DeleteStart(Caller, tag, sel, name, version, prune, confirm)
    \/ DeleteSteps(Caller)
    \/ DeleteGetMalformed(Caller)
    \/ ForeignDelete(Caller)

SpecDelete == InitDelete /\ [][NextDelete]_vars

\* one bulk delete on a registry of up to several pages
BulkSizes ==
    {0, 1, delete_list_limit, delete_list_limit + 1, 2 * delete_list_limit,
     2 * delete_list_limit + 1, NumRefs}

InitBulk ==
    /\ \E n \in BulkSizes : bentos = Registry(n) /\ store = Storage(n)
    /\ InitClients
    /\ InitLocal

NextBulk ==
    \/ \E name \in {NoName, NameSeq[1]}, prune \in BOOLEAN, confirm \in BOOLEAN :
          /\ calls[Caller] = 0
          /\ DeleteStart(Caller, NoTag, NoSelector, name, NoVersion, prune, confirm)
    \/ DeleteSteps(Caller)
    \/ ForeignDelete(Caller)

SpecBulk == InitBulk /\ [][NextBulk]_vars

\* The client is one thread running its method to the end: a step of the
\* running bulk delete that can be taken is eventually taken.
FairSpecBulk == SpecBulk /\ WF_vars(DeleteSteps(Caller))

\* the derivation of the bundle location, by push and by
\* download_to_directory, from every BentoUri message
InitLocator ==
    /\ InitCli
    /\ bentos = EmptyMap /\ store = EmptyMap
    /\ pc = [c \in Clients |-> "idle"]
    /\ args = [c \in Clients |-> NoArgs]
    /\ meta = [c \in Clients |-> NoMeta]
    /\ \E uri \in UriRecords :
         resp = [c \in Clients |-> IF c = Caller THEN [NoResp EXCEPT !.uri = uri]
                                   ELSE NoResp]
    /\ offset = [c \in Clients |-> 0]
    /\ page = [c \in Clients |-> <<>>]
    /\ idx = [c \in Clients |-> 0]
    /\ result = [c \in Clients |-> "none"]
    /\ cnt = [c \in Clients |-> ZeroCnt]
    /\ pre = [c \in Clients |-> EmptyMap]
    /\ calls = [c \in Clients |-> 0]
    /\ InitLocal

\* lines 88-93 on the response held by client c
PushLocate(c) ==
    /\ "push" \notin resp[c].derived
    /\ resp' = [resp EXCEPT ![c].pushPath = PushBundlePath(resp[c].uri),
                            ![c].derived = @ \cup {"push"}]
    /\ UNCHANGED <<bentos, store, pc, args, meta, offset, page, idx, result, cnt, pre,
                   calls, cliVars, localVars>>

\* lines 272-277 on the response held by client c
DownloadLocate(c) ==
    /\ "download" \notin resp[c].derived
    /\ resp' = [resp EXCEPT ![c].path = BundlePath(resp[c].uri),
                            ![c].derived = @ \cup {"download"}]
    /\ UNCHANGED <<bentos, store, pc, args, meta, offset, page, idx, result, cnt, pre,
                   calls, cliVars, localVars>>

NextLocator == PushLocate(Caller) \/ DownloadLocate(Caller)

SpecLocator == InitLocator /\ [][NextLocator]_vars

\* two clients of one authority, each calling upload_from_dir once, for the
\* same reference, in every interleaving of their steps
Rival == 2

NextRace ==
    \/ \E d \in SavedDirs :
          /\ calls[Caller] = 0
          /\ UploadStart(Caller, d, EmptyMap)
    \/ \E d \in SavedDirs :
          /\ calls[Caller] > 0 /\ calls[Rival] = 0
          /\ RefOf(d) = RefOf(args[Caller].dir)
          /\ UploadStart(Rival, d, EmptyMap)
    \/ UploadSteps(Caller)
    \/ UploadSteps(Rival)

SpecRace == InitUpload /\ [][NextRace]_vars

\* two clients of one authority, each calling upload_from_dir once, for any
\* references, in every interleaving of their steps
NextPair ==
    \/ \E d \in SavedDirs :
          /\ calls[Caller] = 0 /\ d.tree = "tree1"
          /\ UploadStart(Caller, d, EmptyMap)
    \/ \E d \in SavedDirs :
          /\ calls[Rival] = 0 /\ d.tree = "tree2"
          /\ UploadStart(Rival, d, EmptyMap)
    \/ UploadSteps(Caller)
    \/ UploadSteps(Rival)

InitPair ==
    /\ \E n \in 0..1 : bentos = Registry(n) /\ store = Storage(n)
    /\ InitClients
    /\ InitLocal

SpecPair == InitPair /\ [][NextPair]_vars

\* an upload that its caller gives up after Add, and what another client does
\* about the same reference afterwards
Aborted == result[Caller] = "aborted"
AbortedRef == RefOf(meta[Caller])

NextAbort ==
    \/ \E d \in SavedDirs :
          /\ calls[Caller] = 0
          /\ UploadStart(Caller, d, EmptyMap)
    \/ UploadSteps(Caller)
    \/ UploadAbort(Caller)
    \/ \E d \in SavedDirs :
          /\ Aborted /\ RefOf(d) = AbortedRef
          /\ UploadStart(Rival, d, EmptyMap)
    \/ \E op \in {"get", "containerize"} :
          /\ Aborted
          /\ TagCallStart(Rival, op, AbortedRef, TRUE)
    \/ /\ Aborted
       /\ DeleteStart(Rival, AbortedRef, NoSelector, NoName, NoVersion, FALSE, FALSE)
    \/ UploadSteps(Rival)
    \/ GetRpc(Rival)
    \/ ContainerizeRpc(Rival)
    \/ DeleteGet(Rival)
    \/ DeleteRpc(Rival)

SpecAbort == InitUpload /\ [][NextAbort]_vars

\* A bundle kept in an object store: registered, archived and Done.
RemoteBento(ref) == [DoneBento(ref) EXCEPT !.uriType = "S3"]
RemoteRegistry(n) == [r \in {AllRefsSeq[i] : i \in 1..n} |-> RemoteBento(r)]
RemoteStorage(n) == [r \in {AllRefsSeq[i] : i \in 1..n} |-> Tar(r.name, "tree1")]

\* every method, called by one caller on a self.yatai_service that keeps its
\* bundles on its filesystem or in an object store, with a local
\* YataiService that holds some of the references, and a disk on which the
\* directory the caller names may exist
InitRepo ==
    /\ \E n \in 0..MaxFaultRefs :
          \/ bentos = Registry(n) /\ store = Storage(n)
          \/ bentos = RemoteRegistry(n) /\ store = RemoteStorage(n)
    /\ \E m \in 0..1 : localBentos = Registry(m) /\ localStore = Storage(m)
    /\ \E t \in {{}, {UserDir}} : disk = [q \in t |-> "tree2"]
    /\ InitClients

RefArgs == FaultRefs \cup {MalformedTag}

\* The saved bundles whose tree differs from what the storages hold at the
\* start, uploaded without labels or with labels that are not valid.
RepoDirs == {d \in SavedDirs : d.tree = "tree2"}

NextRepo ==
    \/ \E d \in RepoDirs, labels \in {EmptyMap, InvalidLabels} :
            UploadStart(Caller, d, labels)
    \/ UploadSteps(Caller)
    \/ \E op \in TagOps, tag \in RefArgs :
          \E with_labels \in (IF op = "push" THEN BOOLEAN ELSE {TRUE}) :
            TagCallStart(Caller, op, tag, with_labels)
    \/ \E name \in {NoName} \cup Names, sel \in {NoSelector} \cup Selectors,
          off \in {0, 1}, limit \in {1, delete_list_limit} :
            ListStart(Caller, name, sel, off, limit)
    \/ \E ref \in FaultRefs : DownloadStart(Caller, ref, UserDir)
    \/ \E tag \in TagArgs, name \in {NoName, NameSeq[1]}, prune \in BOOLEAN :
            DeleteStart(Caller, tag, NoSelector, name, NoVersion, prune, FALSE)
    \/ CallSteps(Caller)
    \/ DeleteSteps(Caller)
    \/ DeleteGetMalformed(Caller)

SpecRepo == InitRepo /\ [][NextRepo]_vars

\* load, called with every kind of argument, on the registries and disks of
\* InitRepo
NextLoad ==
    \/ \E input \in LoadInputs : LoadStart(Caller, input)
    \/ LoadGet(Caller)
    \/ LoadFromDir(Caller)

SpecLoad == InitRepo /\ [][NextLoad]_vars

---------------------------------------------------------------------------
(* The containerize command (bentoml/cli/bento_service.py) *)

\* Strings are sequences of characters; a token is made of these.
Chars == {"a", "="}

RECURSIVE StringsOf(_)
StringsOf(n) ==
    IF n = 0 THEN {<<>>}
    ELSE StringsOf(n - 1)
           \cup {Append(s, ch) : s \in {t \in StringsOf(n - 1) : Len(t) = n - 1},
                                 ch \in Chars}

Tokens == StringsOf(MaxLen)

RECURSIVE TokenLists(_)
TokenLists(n) ==
    IF n = 0 THEN {<<>>}
    ELSE TokenLists(n - 1)
           \cup {Append(l, t) : l \in {m \in TokenLists(n - 1) : Len(m) = n - 1},
                                t \in Tokens}

\* The position of the first '=' of s at or after i, 0 when there is none.
RECURSIVE Find(_, _)
Find(s, i) ==
    IF i > Len(s) THEN 0
    ELSE IF s[i] = "=" THEN i
    ELSE Find(s, i + 1)

\* The position of the last '=' of s at or before i, 0 when there is none.
RECURSIVE RFind(_, _)
RFind(s, i) ==
    IF i = 0 THEN 0
    ELSE IF s[i] = "=" THEN i
    ELSE RFind(s, i - 1)

\* The token cut at its last '='.
RSplitOnce(arg) ==
    LET p == RFind(arg, Len(arg))
    IN  IF p = 0 THEN <<arg>>
        ELSE <<SubSeq(arg, 1, p - 1), SubSeq(arg, p + 1, Len(arg))>>

\* line 531: arg.split("=", 1)
SplitOnce(arg) ==
    LET p == Find(arg, 1)
    IN  IF p = 0 THEN <<arg>>
        ELSE <<SubSeq(arg, 1, p - 1), SubSeq(arg, p + 1, Len(arg))>>

\* the command started with some --build-arg tokens (line 528)
InitBuildArgs ==
    /\ bentos = EmptyMap /\ store = EmptyMap
    /\ pc = [c \in Clients |-> "idle"]
    /\ args = [c \in Clients |-> NoArgs]
    /\ meta = [c \in Clients |-> NoMeta]
    /\ resp = [c \in Clients |-> NoResp]
    /\ offset = [c \in Clients |-> 0]
    /\ page = [c \in Clients |-> <<>>]
    /\ idx = [c \in Clients |-> 0]
    /\ result = [c \in Clients |-> "none"]
    /\ cnt = [c \in Clients |-> ZeroCnt]
    /\ pre = [c \in Clients |-> EmptyMap]
    /\ calls = [c \in Clients |-> 0]
    /\ InitLocal
    /\ InitSpin({TRUE})
    /\ build_arg \in TokenLists(MaxArgs)
    /\ docker_build_args = <<>>
    /\ arg_i = 1
    /\ cmd = "build_args"

\* lines 530-532: one round of the loop; the unpacking of line 531 raises
\* ValueError when the token has no '='
BuildArgStep ==
    /\ cmd = "build_args"
    /\ arg_i <= Len(build_arg)
    /\ LET kv == SplitOnce(build_arg[arg_i])
       IN  IF Len(kv) # 2
           THEN cmd' = "value_error" /\ UNCHANGED <<docker_build_args, arg_i>>
           ELSE /\ docker_build_args' = PutKey(docker_build_args, kv[1], kv[2])
                /\ arg_i' = arg_i + 1
                /\ UNCHANGED cmd
    /\ UNCHANGED <<build_arg, repoVars, spinVars>>

\* lines 529-533: no token, or none left: the map is complete
BuildArgsDone ==
    /\ cmd = "build_args"
    /\ arg_i > Len(build_arg)
    /\ cmd' = "built"
    /\ UNCHANGED <<build_arg, docker_build_args, arg_i, repoVars, spinVars>>

NextBuildArgs == BuildArgStep \/ BuildArgsDone

SpecBuildArgs == InitBuildArgs /\ [][NextBuildArgs]_vars

---------------------------------------------------------------------------
(* Properties *)

Finished(c, op) ==
    pc[c] = "idle" /\ args[c].op = op /\ result[c] \notin {"none", "running"}

\* The upload of client c is of a reference that was Done when the call started.
UploadOfDone(c) ==
    /\ args[c].op = "upload"
    /\ RefOf(meta[c]) \in DOMAIN pre[c]
    /\ pre[c][RefOf(meta[c])].status = "DONE"

\* C1: an upload of a reference that is Done at the authority issues no Add,
\* no Update, no backend write and no PUT, leaves the authority's record of
\* the reference as it was, and fails; when the call reaches the pre-check
\* Get (its labels argument is valid) and the authority answers it from its
\* table, the failure is the already-registered error.
C1_NoSilentOverwrite ==
    \A c \in Clients :
        UploadOfDone(c) =>
            /\ cnt[c].add = 0 /\ cnt[c].update = 0
            /\ cnt[c].write = 0 /\ cnt[c].put = 0
            /\ RefOf(meta[c]) \in DOMAIN bentos
            /\ bentos[RefOf(meta[c])] = pre[c][RefOf(meta[c])]
            /\ pc[c] = "idle" =>
                  /\ result[c] \in {"already_registered", "yatai_access_failed",
                                   "labels_invalid"}
                  /\ (resp[c].code # INTERNAL /\ ~LabelsRejected(args[c].labels)) =>
                        result[c] = "already_registered"

C1_Witness ==
    \E c \in Clients :
        /\ UploadOfDone(c)
        /\ Finished(c, "upload")
        /\ result[c] = "already_registered"
        /\ cnt[c].get = 1

\* C2: after an upload call that registered its reference (Add answered OK)
\* has returned or raised, the reference's status at the authority is Done
\* or Error.
C2_TerminalStatus ==
    \A c \in Clients :
        (Finished(c, "upload") /\ resp[c].uriType # "none") =>
            /\ RefOf(meta[c]) \in DOMAIN bentos
            /\ bentos[RefOf(meta[c])].status \in {"DONE", "ERROR"}

BulkDelete(c) == args[c].op = "delete" /\ Mode(c) = "bulk"

\* C3: when delete(prune=True) returns after a run in which no deletion
\* failed, the registry holds no bundle.
C3_PruneEmptiesRegistry ==
    \A c \in Clients :
        (Finished(c, "delete") /\ BulkDelete(c) /\ args[c].prune
            /\ result[c] = "returned" /\ cnt[c].fault = 0) =>
            DOMAIN bentos = {}

\* The most List RPCs a paging loop over n bundles issues.
MaxLists(n) == ((n + delete_list_limit - 1) \div delete_list_limit) + 1

\* C4: a bulk delete always terminates: every running call eventually ends,
\* after at most one List RPC per page of the initial registry plus one,
\* and it returns normally only on an empty page.
C4_BulkDeleteTerminates ==
    /\ \A c \in Clients : (pc[c] # "idle") ~> (pc[c] = "idle")
    /\ [](\A c \in Clients :
            BulkDelete(c) => cnt[c].list <= MaxLists(Cardinality(DOMAIN pre[c])))
    /\ [](\A c \in Clients :
            (Finished(c, "delete") /\ BulkDelete(c) /\ result[c] = "returned") =>
                Len(page[c]) = 0)

C4_Witness ==
    \E c \in Clients :
        /\ Finished(c, "delete") /\ BulkDelete(c)
        /\ result[c] = "returned"
        /\ cnt[c].list = 3
        /\ cnt[c].fault > 0

\* delete was called with bento_tag, bento_name and bento_version.
AllThree(c) ==
    /\ args[c].op = "delete"
    /\ args[c].tag # NoTag /\ args[c].name # NoName /\ args[c].version # NoVersion

\* C5: delete with an exact reference and a name/version pair raises the
\* usage error before any RPC and leaves the registry unchanged.
C5_TagAndNameVersion ==
    \A c \in Clients :
        AllThree(c) =>
            /\ pc[c] = "idle"
            /\ result[c] = "too_much_arguments"
            /\ cnt[c] = ZeroCnt
            /\ bentos = pre[c]

C5_Witness ==
    \E c \in Clients :
        AllThree(c) /\ result[c] = "too_much_arguments" /\ DOMAIN bentos # {}

\* How many of the selectors {exact reference, name, prune-all} a call supplies.
SelectorsGiven(c) ==
    (IF args[c].tag # NoTag THEN 1 ELSE 0) + (IF args[c].name # NoName THEN 1 ELSE 0)
        + (IF args[c].prune THEN 1 ELSE 0)

C7_NameVersionDeletesOne ==
    \A c \in Clients :
        (Finished(c, "delete") /\ args[c].tag = NoTag /\ args[c].name # NoName
            /\ args[c].version # NoVersion /\ args[c].selector = NoSelector
            /\ ~args[c].prune /\ cnt[c].fault = 0) =>
            \A r \in DOMAIN pre[c] :
                (r.name = args[c].name /\ r.version # args[c].version) =>
                    r \in DOMAIN bentos

NoSelectorAtAll(c) ==
    /\ args[c].op = "delete"
    /\ args[c].tag = NoTag /\ args[c].name = NoName /\ args[c].version = NoVersion
    /\ args[c].selector = NoSelector /\ ~args[c].prune

\* C8: delete with no selector at all, on a registry that holds bundles,
\* raises the usage error before any RPC and deletes nothing.
C8_NoSelectorIsUsageError ==
    \A c \in Clients :
        (Finished(c, "delete") /\ NoSelectorAtAll(c) /\ DOMAIN pre[c] # {}
            /\ cnt[c].fault = 0) =>
            /\ result[c] = "too_much_arguments"
            /\ cnt[c] = ZeroCnt
            /\ bentos = pre[c]

\* C9: a bulk delete that no List failure ended has attempted every bundle
\* it listed and has gone on to an empty page, whatever the per-item Get
\* and DangerouslyDelete answered.
C9_BulkContinuesPastFailure ==
    \A c \in Clients :
        (Finished(c, "delete") /\ BulkDelete(c) /\ result[c] # "list_failed") =>
            /\ cnt[c].get = cnt[c].listed
            /\ Len(page[c]) = 0

\* C10: a single delete whose DangerouslyDelete was answered non-OK does
\* not return normally.
C10_SingleDeleteFailLoud ==
    \A c \in Clients :
        (Finished(c, "delete") /\ Mode(c) = "single" /\ cnt[c].delete = 1
            /\ resp[c].code # OK) =>
            result[c] # "returned"

\* The upload of client c has raised the transfer error of lines 236-240.
TransferError(c) == Finished(c, "upload") /\ result[c] = "put_failed"

\* C11: when upload raises a transfer error, the authority's recorded status
\* of the reference is Error at the raise, also when the authority answered
\* the Error update with a non-OK status.
C11_ErrorRecordedBeforeRaise ==
    \A c \in Clients :
        TransferError(c) =>
            /\ RefOf(meta[c]) \in DOMAIN bentos
            /\ bentos[RefOf(meta[c])].status = "ERROR"

\* This step is a DangerouslyDelete RPC that names reference r.
ExplicitDelete(r) ==
    \E c \in Clients :
        pc[c] = "del_rpc" /\ CurTag(c) = r /\ cnt'[c].delete = cnt[c].delete + 1

\* Across this step, every reference that is Done in table reg keeps its
\* record and its stored payload, unless the step is an explicit delete of it.
DoneKept(reg, regNext, st, stNext) ==
    \A r \in DOMAIN reg :
        (reg[r].status = "DONE" /\ ~ExplicitDelete(r)) =>
            /\ r \in DOMAIN regNext /\ regNext[r] = reg[r]
            /\ r \in DOMAIN st /\ r \in DOMAIN stNext /\ stNext[r] = st[r]

AddAnswered(c) ==
    /\ result[c] # "yatai_access_failed"
    /\ ~(result[c] = "add_failed" /\ resp[c].code = INTERNAL)

RaceOver ==
    /\ Finished(Caller, "upload") /\ Finished(Rival, "upload")
    /\ RefOf(meta[Caller]) = RefOf(meta[Rival])
    /\ RefOf(meta[Caller]) \notin DOMAIN pre[Caller]
    /\ AddAnswered(Caller) /\ AddAnswered(Rival)

AddOk(c) == resp[c].uriType # "none"

\* C13 as claimed: of two concurrent uploads of one brand-new reference,
\* in every interleaving exactly one succeeds at Add and the other fails at
\* the pre-check Get with the already-registered error.
C13_LoserFailsAtPreCheck ==
    RaceOver =>
        \E w, l \in {Caller, Rival} :
            /\ w # l
            /\ AddOk(w) /\ ~AddOk(l)
            /\ result[l] = "already_registered" /\ cnt[l].add = 0

\* C13 as amended: of two concurrent uploads of one brand-new reference,
\* in every interleaving exactly one succeeds at Add; the other fails
\* without an Update, a backend write or a PUT, either at the pre-check Get
\* with the already-registered error (its Get came after the winner's Add)
\* or at its own Add, which the authority rejects, with the add error (its
\* Get came before the winner's Add).
C13_ExactlyOneAdds ==
    RaceOver =>
        \E w, l \in {Caller, Rival} :
            /\ w # l
            /\ AddOk(w) /\ ~AddOk(l)
            /\ \/ result[l] = "already_registered" /\ cnt[l].add = 0
               \/ /\ result[l] = "add_failed" /\ cnt[l].add = 1
                  /\ resp[l].code = ALREADY_EXISTS
            /\ cnt[l].update = 0 /\ cnt[l].write = 0 /\ cnt[l].put = 0

C13_Witness ==
    /\ RaceOver
    /\ AddOk(Caller)
    /\ result[Rival] = "add_failed" /\ resp[Rival].code = ALREADY_EXISTS

\* C14: after upload_from_dir(D, labels=L) has returned a location, the
\* reference can be retrieved, the retrieved tree is D's, and the labels
\* that Get reports for it include L.
C14_RoundTrip ==
    \A c \in Clients :
        (Finished(c, "upload") /\ result[c] = "returned") =>
            LET ref == RefOf(meta[c])
            IN  /\ ref \in DOMAIN bentos
                /\ Retrievable(BundlePath(BentoUri(ref, bentos[ref])), store)
                /\ Retrieved(store[ref]) = args[c].dir.tree
                /\ \A k \in DOMAIN args[c].labels :
                      /\ k \in DOMAIN bentos[ref].labels
                      /\ bentos[ref].labels[k] = args[c].labels[k]

\* C15: upload never returns a location after the authority rejected a
\* status Update: an upload that returned had its last Update RPC, the one
\* that carries Done, answered OK.
C15_UpdateRejectedRaises ==
    \A c \in Clients :
        (Finished(c, "upload") /\ result[c] = "returned") => resp[c].upd = OK

\* The Update RPC that client c issues in this step, if it issues one.
UpdateIssued(c) == cnt'[c].update = cnt[c].update + 1

Remote(uriType) == uriType \in {"S3", "GCS"}

\* The status edges of the claim.
ClaimedEdges(uriType) ==
    {<<"PENDING", "UPLOADING">>, <<"UPLOADING", "DONE">>, <<"UPLOADING", "ERROR">>}
        \cup (IF uriType = "LOCAL" THEN {<<"PENDING", "DONE">>} ELSE {})

\* The edges on an object store when the Uploading update was not applied.
SkippedUploadingEdges(uriType) ==
    IF Remote(uriType) THEN {<<"PENDING", "DONE">>, <<"PENDING", "ERROR">>} ELSE {}

\* Every change of a recorded status in this step is along one of the edges.
StatusEdgesIn(edges(_)) ==
    \A r \in (DOMAIN bentos) \cap (DOMAIN bentos') :
        bentos'[r].status # bentos[r].status =>
            /\ <<bentos[r].status, bentos'[r].status>> \in edges(bentos[r].uriType)
            /\ \E c \in Clients : UpdateIssued(c) /\ RefOf(meta[c]) = r

AllEdges(uriType) == ClaimedEdges(uriType) \cup SkippedUploadingEdges(uriType)

C17_OneTerminalUpdate ==
    \A c \in Clients :
        (Finished(c, "upload") /\ (resp[c].uriType = "LOCAL" \/ Remote(resp[c].uriType))) =>
            cnt[c].terminal = 1

\* Client c's safe_retrieve runs in this step.
RetrieveStep(c) == pc[c] = "retrieve" /\ pc'[c] # "retrieve"

\* C18: a retrieval into an existing target directory fails with the
\* target-exists error and changes neither that directory nor anything else
\* on the disk or in the storage; pull retrieves into a path that does not
\* exist when the retrieval runs.
C18_RetrievalNeverOverwrites ==
    [][\A c \in Clients :
         RetrieveStep(c) =>
            /\ TargetDir(c) \in DOMAIN disk =>
                  /\ pc'[c] = "idle" /\ result'[c] = "target_exists"
                  /\ disk' = disk /\ store' = store /\ localStore' = localStore
            /\ args[c].op = "pull" => TargetDir(c) \notin DOMAIN disk]_vars

C18_Witness ==
    \E c \in Clients :
        /\ Finished(c, "download") /\ result[c] = "target_exists"
        /\ args[c].target \in DOMAIN disk /\ disk[args[c].target] = "tree2"
        /\ args[c].tag \in DOMAIN store

\* C19: get, containerize, push, pull and the single delete, given a
\* reference without ':', and upload_from_dir, given labels of invalid
\* syntax, raise with no RPC issued, no backend write and the registry
\* unchanged.
C19_MalformedInputRejectedFirst ==
    \A c \in Clients :
        /\ ((args[c].op \in TagOps \/ (args[c].op = "delete" /\ Mode(c) = "single"))
                /\ args[c].tag = MalformedTag) =>
              /\ cnt[c] = ZeroCnt
              /\ bentos = pre[c]
              /\ pc[c] = "idle" => result[c] = "name_or_version_missing"
        /\ (args[c].op = "upload" /\ args[c].labels = InvalidLabels) =>
              /\ cnt[c] = ZeroCnt
              /\ bentos = pre[c]
              /\ pc[c] = "idle" /\ result[c] = "labels_invalid"

C19_Witness ==
    \E c \in Clients :
        /\ args[c].op = "pull" /\ args[c].tag = MalformedTag
        /\ pc[c] = "idle" /\ result[c] = "name_or_version_missing"
        /\ DOMAIN bentos # {}

\* C20: list raises exactly when the List response is not OK; an OK
\* response with no bundle returns the empty sequence; an OK response is
\* returned as it is, the same bundles in the same order.
C20_ListReturnsResponse ==
    \A c \in Clients :
        Finished(c, "list") =>
            /\ cnt[c].list = 1
            /\ result[c] \in {"list_failed", "returned"}
            /\ (result[c] = "list_failed") <=> (resp[c].code # OK)
            /\ result[c] = "returned" =>
                  page[c] = ListBento(bentos, args[c].name, args[c].selector,
                                      args[c].offset, args[c].limit)

C20_Witness ==
    \E c \in Clients :
        /\ Finished(c, "list") /\ result[c] = "returned"
        /\ resp[c].code = OK /\ page[c] = <<>>
        /\ DOMAIN bentos # {}

\* C21: on an object store, an upload whose PUT was answered with a 2xx
\* status (200, 201, 204, ...) returns the location.
C21_Every2xxIsSuccess ==
    \A c \in Clients :
        (Finished(c, "upload") /\ Remote(resp[c].uriType) /\ cnt[c].put = 1
            /\ resp[c].http \in 200..299) =>
            result[c] = "returned"

\* C22: an upload sends Add only after its pre-check Get was answered NotFound;
\* it writes to a storage backend and sends Update only after Add was answered
\* OK; a Get answer other than OK or NotFound raises with no Add sent; a non-OK
\* Add raises with no backend write and no Update.
C22_PreconditionsInOrder ==
    [][\A c \in Clients :
          args[c].op = "upload" =>
            /\ cnt'[c].add > cnt[c].add =>
                  cnt[c].get = 1 /\ resp[c].code = NOT_FOUND
            /\ (\/ cnt'[c].write > cnt[c].write
                \/ cnt'[c].update > cnt[c].update
                \/ cnt'[c].put > cnt[c].put) =>
                  cnt[c].add = 1 /\ resp[c].code = OK
            /\ (pc[c] = "up_get" /\ resp'[c].code \notin {OK, NOT_FOUND}) =>
                  result'[c] = "yatai_access_failed" /\ cnt'[c].add = 0
            /\ (pc[c] = "up_add" /\ resp'[c].code # OK) =>
                  /\ result'[c] = "add_failed"
                  /\ cnt'[c].write = 0 /\ cnt'[c].update = 0 /\ cnt'[c].put = 0]_vars

C22_Witness ==
    \E c \in Clients :
        /\ Finished(c, "upload") /\ result[c] = "add_failed"
        /\ cnt[c].get = 1 /\ cnt[c].add = 1 /\ cnt[c].write = 0 /\ cnt[c].update = 0

\* C23: in an upload to an object store the events come in the order Get, Add,
\* Update(Uploading, 0%), PUT, terminal Update: the Uploading update is the
\* first update and precedes the PUT, and the Done or Error update is sent only
\* after the PUT response has arrived.
C23_RemoteEventOrder ==
    [][\A c \in Clients :
          (args[c].op = "upload" /\ Remote(resp'[c].uriType)) =>
            /\ cnt'[c].add > cnt[c].add =>
                  cnt[c].get = 1 /\ cnt[c].update = 0 /\ cnt[c].put = 0
            /\ (cnt'[c].update > cnt[c].update /\ cnt'[c].terminal = cnt[c].terminal) =>
                  /\ resp'[c].req = [status |-> "UPLOADING", percentage |-> 0]
                  /\ cnt[c].add = 1 /\ cnt[c].update = 0 /\ cnt[c].put = 0
            /\ cnt'[c].put > cnt[c].put =>
                  /\ resp[c].req = [status |-> "UPLOADING", percentage |-> 0]
                  /\ cnt[c].update = 1 /\ cnt[c].terminal = 0 /\ cnt[c].put = 0
            /\ cnt'[c].terminal > cnt[c].terminal =>
                  /\ cnt[c].put = 1 /\ resp[c].http \in HttpStatuses
                  /\ cnt[c].update = 1 /\ cnt[c].terminal = 0]_vars

C23_Witness ==
    \E c \in Clients :
        /\ Finished(c, "upload") /\ Remote(resp[c].uriType)
        /\ result[c] = "put_failed" /\ resp[c].http = 500
        /\ cnt[c].get = 1 /\ cnt[c].add = 1 /\ cnt[c].put = 1
        /\ cnt[c].update = 2 /\ cnt[c].terminal = 1

\* C24: on the Local backend an upload replaces the destination: when the
\* upload returns, the destination holds exactly the source tree, whatever it
\* held before, and the Done update is sent only after the copy has completed.
C24_LocalUploadReplaces ==
    [][\A c \in Clients :
          (args[c].op = "upload" /\ resp'[c].uriType = "LOCAL") =>
            /\ cnt'[c].terminal > cnt[c].terminal =>
                  /\ resp'[c].req.status = "DONE"
                  /\ cnt[c].write = 1
                  /\ RefOf(meta[c]) \in DOMAIN store
                  /\ store[RefOf(meta[c])] = Dir(args[c].dir.tree)
            /\ (result'[c] = "returned" /\ result[c] # "returned") =>
                  /\ RefOf(meta[c]) \in DOMAIN store'
                  /\ store'[RefOf(meta[c])] = Dir(args[c].dir.tree)]_vars

C24_Witness ==
    \E c \in Clients :
        /\ Finished(c, "upload") /\ resp[c].uriType = "LOCAL"
        /\ result[c] = "returned" /\ cnt[c].rmtree = 1
        /\ store[RefOf(meta[c])] = Dir(args[c].dir.tree)

\* C25: the labels passed to upload_from_dir are merged into the labels of the
\* bundle: in the metadata sent to the authority every passed key carries the
\* passed value and every other key of the bundle keeps its value.
C25_LabelsMerged ==
    \A c \in Clients :
        (args[c].op = "upload" /\ result[c] \notin {"none", "labels_invalid"}) =>
            LET own == DirLabels(args[c].dir)
                sent == meta[c].labels
            IN  /\ DOMAIN sent = DOMAIN own \cup DOMAIN args[c].labels
                /\ \A k \in DOMAIN args[c].labels : sent[k] = args[c].labels[k]
                /\ \A k \in DOMAIN own \ DOMAIN args[c].labels : sent[k] = own[k]
                /\ (cnt[c].update > 0 /\ resp[c].upd = OK) =>
                       bentos[RefOf(meta[c])].labels = sent

C25_Witness ==
    \E c \in Clients :
        /\ Finished(c, "upload") /\ result[c] = "returned"
        /\ DOMAIN DirLabels(args[c].dir) = {"ci"}
        /\ DOMAIN args[c].labels = {"cohort"}
        /\ resp[c].upd = OK
        /\ DOMAIN bentos[RefOf(meta[c])].labels = {"ci", "cohort"}
        /\ bentos[RefOf(meta[c])].labels["ci"] = "failed"
        /\ bentos[RefOf(meta[c])].labels["cohort"] = "20"

\* The step sends a ListBento request for client c.
ListIssued(c) == cnt'[c].list = cnt[c].list + 1

\* C26: a bulk delete sends its List requests with the offsets 0, 50, 100, ...
\* in that order, each with limit 50 and with the name and label filter of the
\* first; it handles every bundle of a page before it requests the next page,
\* and it sends no List request after a page that came back empty.
C26_PagingSequence ==
    [][\A c \in Clients :
          (args[c].op = "delete" /\ ListIssued(c)) =>
            /\ resp'[c].listReq.offset = 50 * cnt[c].list
            /\ resp'[c].listReq.limit = 50
            /\ cnt[c].list > 0 =>
                  /\ resp'[c].listReq.name = resp[c].listReq.name
                  /\ resp'[c].listReq.sel = resp[c].listReq.sel
                  /\ Len(page[c]) > 0
                  /\ idx[c] = Len(page[c])
                  /\ cnt[c].get = cnt[c].listed]_vars

C26_Witness ==
    \E c \in Clients :
        /\ Finished(c, "delete") /\ result[c] = "returned"
        /\ cnt[c].list = 3 /\ resp[c].listReq.offset = 100
        /\ cnt[c].listed > 50 /\ cnt[c].get = cnt[c].listed

\* The step sends a DangerouslyDelete request for client c.
DeleteIssued(c) == cnt'[c].delete = cnt[c].delete + 1

\* C27: with require_confirm, a DangerouslyDelete request for a bundle is sent
\* only after the user confirmed the deletion of that bundle; when the user
\* declines, no DangerouslyDelete is sent for it and the bundle stays in the
\* registry.
C27_DeleteOnlyAfterConfirmation ==
    [][\A c \in Clients :
          (args[c].op = "delete" /\ args[c].confirm) =>
            /\ DeleteIssued(c) =>
                  /\ resp[c].confirmed # NoTag
                  /\ resp'[c].deleteReq = resp[c].confirmed
                  /\ cnt[c].yes = cnt[c].delete + 1
            /\ (cnt'[c].confirm > cnt[c].confirm /\ cnt'[c].yes = cnt[c].yes) =>
                  /\ bentos' = bentos
                  /\ cnt'[c].delete = cnt[c].delete
                  /\ pc'[c] # "del_rpc"
                  /\ resp'[c].confirmed = NoTag]_vars

C27_Witness ==
    \E c \in Clients :
        /\ Finished(c, "delete") /\ args[c].confirm
        /\ cnt[c].yes > 0 /\ cnt[c].confirm > cnt[c].yes
        /\ cnt[c].delete = cnt[c].yes

\* The references of a page.
PageRefs(p) == {p[i] : i \in 1..Len(p)}

\* C28: with prune and no exact reference, delete ignores the other filters:
\* every List request carries no name filter and no label selector, whatever
\* bento_name and labels were passed, so that the page answered holds every
\* bundle of a registry that fits one page.
C28_PruneIgnoresFilters ==
    [][\A c \in Clients :
          (args[c].op = "delete" /\ args[c].prune /\ ListIssued(c)) =>
            /\ resp'[c].listReq.name = NoName
            /\ resp'[c].listReq.sel = NoSelector
            /\ (cnt[c].list = 0 /\ resp'[c].code = OK
                    /\ Cardinality(DOMAIN bentos) <= 50) =>
                  PageRefs(page'[c]) = DOMAIN bentos]_vars

C28_Witness ==
    \E c \in Clients :
        /\ Finished(c, "delete") /\ args[c].prune /\ result[c] = "returned"
        /\ args[c].name # NoName /\ args[c].selector # NoSelector
        /\ \E r \in DOMAIN pre[c] :
              /\ r.name # args[c].name
              /\ ~LabelMatch(pre[c][r].labels, args[c].selector)
              /\ r \notin DOMAIN bentos

\* Bundle r of registry reg matches the filter of client c's delete.
Matching(c, r, reg) ==
    /\ args[c].name = NoName \/ r.name = args[c].name
    /\ args[c].selector = NoSelector \/ LabelMatch(reg[r].labels, args[c].selector)

\* C29: a bulk delete by name or by labels never deletes a bundle that does
\* not match the filter: every DangerouslyDelete names a reference of the page
\* its List request was answered with, a reference that matches, and every
\* bundle that does not match is left as it is by every step of the call.
C29_BulkDeleteFrame ==
    [][\A c \in Clients :
          (/\ args[c].op = "delete" /\ Mode(c) = "bulk" /\ ~args[c].prune
           /\ pc[c] # "idle") =>
            /\ DeleteIssued(c) =>
                  /\ resp'[c].deleteReq \in PageRefs(page[c])
                  /\ resp'[c].deleteReq \in DOMAIN pre[c]
                  /\ Matching(c, resp'[c].deleteReq, pre[c])
            /\ \A r \in DOMAIN bentos :
                  ~Matching(c, r, bentos) =>
                      r \in DOMAIN bentos' /\ bentos'[r] = bentos[r]]_vars

C29_Witness ==
    \E c \in Clients :
        /\ Finished(c, "delete") /\ Mode(c) = "bulk" /\ ~args[c].prune
        /\ result[c] = "returned" /\ cnt[c].delete > 0
        /\ args[c].name # NoName /\ args[c].selector # NoSelector
        /\ \E r \in DOMAIN pre[c] : Matching(c, r, pre[c]) /\ r \notin DOMAIN bentos
        /\ \E r \in DOMAIN bentos : r.name # args[c].name
        /\ \E r \in DOMAIN bentos :
              r.name = args[c].name /\ ~LabelMatch(bentos[r].labels, args[c].selector)

\* C30: the location derived from a Get response is the S3 presigned URL when
\* that field is not empty, otherwise the GCS presigned URL when that field is
\* not empty, otherwise the direct uri; push and download_to_directory derive
\* the same location from the same response.
C30_PresignedPreferred ==
    \A c \in Clients :
        LET uri == resp[c].uri IN
        /\ "download" \in resp[c].derived =>
              /\ uri.s3_presigned_url # NoLoc => resp[c].path = uri.s3_presigned_url
              /\ (uri.s3_presigned_url = NoLoc /\ uri.gcs_presigned_url # NoLoc) =>
                    resp[c].path = uri.gcs_presigned_url
              /\ (uri.s3_presigned_url = NoLoc /\ uri.gcs_presigned_url = NoLoc) =>
                    resp[c].path = uri.uri
        /\ resp[c].derived = {"push", "download"} => resp[c].pushPath = resp[c].path

C30_Witness ==
    \E c \in Clients :
        /\ resp[c].derived = {"push", "download"}
        /\ resp[c].uri.s3_presigned_url # NoLoc
        /\ resp[c].uri.gcs_presigned_url # NoLoc
        /\ resp[c].uri.uri # NoLoc
        /\ resp[c].path = resp[c].uri.s3_presigned_url
        /\ resp[c].pushPath = resp[c].path

\* The RPCs client c has sent in its call.
RpcCount(c) ==
    cnt[c].get + cnt[c].add + cnt[c].update + cnt[c].list + cnt[c].delete
        + cnt[c].containerize

\* The argument of client c's load is an existing directory or an s3 or gs URL.
DirOrUrl(c) ==
    \/ args[c].input.form = "path" /\ args[c].input.path \in DOMAIN disk
    \/ args[c].input.form = "url"

\* C31 as claimed: load contacts the authority exactly when its argument is
\* neither an existing local directory nor an object-store URL.
C31_ContactsExactlyWhenNotDirOrUrl ==
    \A c \in Clients :
        Finished(c, "load") => (RpcCount(c) > 0 <=> ~DirOrUrl(c))

\* C31: for an existing local directory or an s3/gs URL, load sends no RPC and
\* loads from the argument as it is; for a NAME:VERSION string it sends one Get
\* and nothing else, and raises when the authority answers NotFound; for any
\* other string it raises the missing-name-or-version error with no RPC sent.
C31_LoadContactsForReferences ==
    \A c \in Clients :
        Finished(c, "load") =>
            /\ DirOrUrl(c) =>
                  RpcCount(c) = 0 /\ resp[c].loadFrom = args[c].input
            /\ (~DirOrUrl(c) /\ args[c].input.form = "tag"
                    /\ args[c].input.tag.version # NoVersion) =>
                  /\ cnt[c].get = 1 /\ RpcCount(c) = 1
                  /\ resp[c].code = NOT_FOUND => result[c] = "get_failed"
                  /\ result[c] \in {"returned", "load_failed"} => resp[c].code = OK
            /\ (~DirOrUrl(c) /\ ~(args[c].input.form = "tag"
                                    /\ args[c].input.tag.version # NoVersion)) =>
                  RpcCount(c) = 0 /\ result[c] = "name_or_version_missing"

C31_Witness ==
    \E c \in Clients :
        /\ Finished(c, "load") /\ args[c].input.form = "path"
        /\ args[c].input.path \notin DOMAIN disk
        /\ RpcCount(c) = 0 /\ result[c] = "name_or_version_missing"

\* The registry a replication reads from, and the one it registers in.
SourceBentos(c) == IF args[c].op = "push" THEN localBentos ELSE bentos
DestBentos(c) == IF args[c].op = "push" THEN bentos ELSE localBentos

\* C32: replication never changes the registry it reads from: push sends its
\* Get to the local authority and every Add and Update to the authority its
\* client is bound to, pull sends its Get to the bound authority and every Add
\* and Update to the local one; when the destination already holds the
\* reference, the call fails with the already-registered error and neither
\* registry and neither storage is changed.
C32_ReplicationLeavesSource ==
    [][\A c \in Clients :
          (args[c].op \in {"push", "pull"} /\ pc[c] # "idle") =>
            /\ args[c].op = "push" =>
                  localBentos' = localBentos /\ localStore' = localStore
            /\ args[c].op = "pull" => bentos' = bentos /\ store' = store
            /\ (pc[c] = "get_rpc" /\ resp'[c].code = OK) =>
                  /\ args[c].tag \in DOMAIN SourceBentos(c)
                  /\ resp'[c].bento = SourceBentos(c)[args[c].tag]
            /\ (pc[c] = "get_rpc" /\ resp'[c].code = NOT_FOUND) =>
                  args[c].tag \notin DOMAIN SourceBentos(c)
            /\ (cnt'[c].add > cnt[c].add /\ resp'[c].code = OK) =>
                  /\ args[c].tag \notin DOMAIN DestBentos(c)
                  /\ args[c].tag \in DOMAIN DestBentos(c)'
            /\ (pc[c] = "up_get" /\ args[c].tag \in DOMAIN DestBentos(c)
                    /\ resp'[c].code \in {OK, NOT_FOUND}) =>
                  /\ result'[c] = "already_registered"
                  /\ cnt'[c].add = 0 /\ cnt'[c].update = 0 /\ cnt'[c].write = 0
                  /\ UNCHANGED <<bentos, store, localBentos, localStore>>]_vars

C32_Witness ==
    \E c \in Clients :
        /\ Finished(c, "pull") /\ result[c] = "already_registered"
        /\ args[c].tag \in DOMAIN bentos /\ args[c].tag \in DOMAIN localBentos
        /\ cnt[c].get = 2 /\ cnt[c].retrieve = 1 /\ cnt[c].add = 0

\* C33: an upload given up by its caller after Add and before the terminal
\* update leaves the reference registered as Pending or Uploading; what
\* clients do afterwards does not change its record until it is deleted, and
\* until then every upload of the reference whose pre-check is answered ends
\* in the already-registered error.
C33_AbortedUploadStalls ==
    [][/\ (~Aborted /\ Aborted') =>
              /\ AbortedRef \in DOMAIN bentos'
              /\ bentos'[AbortedRef].status \in {"PENDING", "UPLOADING"}
       /\ (Aborted /\ AbortedRef \in DOMAIN bentos) =>
              /\ (AbortedRef \in DOMAIN bentos'
                      /\ bentos'[AbortedRef] # bentos[AbortedRef]) =>
                    \E c \in Clients \ {Caller} :
                        args[c].op = "upload" /\ AbortedRef \notin DOMAIN pre[c]
              /\ AbortedRef \notin DOMAIN bentos' =>
                    \E c \in Clients \ {Caller} : DeleteIssued(c)
              /\ \A c \in Clients \ {Caller} :
                    (/\ pc[c] = "up_get" /\ args[c].op = "upload"
                     /\ RefOf(meta[c]) = AbortedRef
                     /\ resp'[c].code \in {OK, NOT_FOUND}) =>
                        /\ result'[c] = "already_registered"
                        /\ bentos' = bentos /\ store' = store]_vars

C33_Witness ==
    /\ Aborted
    /\ Finished(Rival, "upload") /\ result[Rival] = "already_registered"
    /\ RefOf(meta[Rival]) = AbortedRef
    /\ AbortedRef \in DOMAIN bentos
    /\ bentos[AbortedRef].status = "UPLOADING"

\* The step sends a PUT for client c.
PutIssued(c) == cnt'[c].put = cnt[c].put + 1

\* C34: a presigned URL is used for at most one transfer: an upload call sends
\* at most one PUT, to the presigned URL that the Add response of that same
\* call carried, and to no URL that another call obtained.
C34_OnePutToOwnUrl ==
    [][\A c \in Clients :
          PutIssued(c) =>
            /\ cnt[c].put = 0
            /\ cnt[c].add = 1
            /\ resp'[c].putUrl # NoUrl
            /\ resp'[c].putUrl.by = c /\ resp'[c].putUrl.call = calls[c]
            /\ resp'[c].putUrl.ref = RefOf(meta[c])
            /\ resp'[c].putUrl \in {resp[c].addUri.s3_presigned_url,
                                    resp[c].addUri.gcs_presigned_url}
            /\ \A o \in Clients \ {c} : resp[o].putUrl # resp'[c].putUrl]_vars

C34_Witness ==
    /\ \A c \in {Caller, Rival} :
          /\ Finished(c, "upload") /\ cnt[c].put = 1 /\ resp[c].putUrl # NoUrl
          /\ resp[c].http = 500
    /\ resp[Caller].putUrl # resp[Rival].putUrl

\* C35 as claimed: one call of get sends exactly one Get, one call of list
\* exactly one List, one call of containerize exactly one Containerize.
C35_ExactlyOneRpc ==
    \A c \in Clients :
        /\ Finished(c, "get") => cnt[c].get = 1
        /\ Finished(c, "list") => cnt[c].list = 1
        /\ Finished(c, "containerize") => cnt[c].containerize = 1

\* C35: the client never sends an RPC again: a call of get or containerize
\* with a NAME:VERSION string sends exactly one Get or Containerize and no
\* other RPC, and none at all when the string has no ':'; a call of list sends
\* exactly one List; a call of upload_from_dir sends at most one Get and at
\* most one Add; all of this whatever status the authority answers.
C35_NoRetry ==
    \A c \in Clients :
        /\ args[c].op \in {"get", "containerize", "list", "upload"} =>
              /\ cnt[c].get <= 1 /\ cnt[c].add <= 1
              /\ cnt[c].list <= 1 /\ cnt[c].containerize <= 1
        /\ Finished(c, "get") =>
              /\ RpcCount(c) = cnt[c].get
              /\ cnt[c].get = IF args[c].tag.version # NoVersion THEN 1 ELSE 0
        /\ Finished(c, "containerize") =>
              /\ RpcCount(c) = cnt[c].containerize
              /\ cnt[c].containerize = IF args[c].tag.version # NoVersion THEN 1 ELSE 0
        /\ Finished(c, "list") => RpcCount(c) = 1 /\ cnt[c].list = 1
        /\ Finished(c, "upload") =>
              /\ cnt[c].add = 1 => cnt[c].get = 1
              /\ result[c] = "add_failed" => cnt[c].add = 1 /\ resp[c].code # OK
              /\ result[c] = "yatai_access_failed" => cnt[c].get = 1 /\ cnt[c].add = 0

C35_Witness ==
    \E c \in Clients :
        /\ Finished(c, "upload") /\ result[c] = "add_failed"
        /\ resp[c].code = INTERNAL /\ cnt[c].get = 1 /\ cnt[c].add = 1

\* Client c has started a directory copy or a PUT.
Wrote(c) == cnt[c].write > 0 \/ cnt[c].put > 0

\* Two uploads of one reference that was not registered when the first began.
RaceOfNew ==
    /\ args[Caller].op = "upload" /\ args[Rival].op = "upload"
    /\ result[Caller] # "labels_invalid" /\ result[Rival] # "labels_invalid"
    /\ RefOf(meta[Caller]) = RefOf(meta[Rival])
    /\ RefOf(meta[Caller]) \notin DOMAIN pre[Caller]

\* C36: of two concurrent uploads of one brand-new reference, in every
\* interleaving at most one performs a backend write (directory copy or PUT),
\* and when the reference is Done, what the storage holds for it is the source
\* tree of the upload whose Add succeeded.
C36_OneWriter ==
    RaceOfNew =>
        LET ref == RefOf(meta[Caller]) IN
        /\ ~(Wrote(Caller) /\ Wrote(Rival))
        /\ ~(AddOk(Caller) /\ AddOk(Rival))
        /\ \A c \in {Caller, Rival} : Wrote(c) => AddOk(c)
        /\ (ref \in DOMAIN bentos /\ bentos[ref].status = "DONE") =>
              \E c \in {Caller, Rival} :
                  /\ AddOk(c) /\ ref \in DOMAIN store
                  /\ store[ref].tree = args[c].dir.tree

C36_Witness ==
    /\ RaceOfNew
    /\ Finished(Caller, "upload") /\ Finished(Rival, "upload")
    /\ args[Caller].dir.tree # args[Rival].dir.tree
    /\ result[Rival] = "returned" /\ Wrote(Rival)
    /\ result[Caller] = "add_failed" /\ ~Wrote(Caller)
    /\ bentos[RefOf(meta[Rival])].status = "DONE"
    /\ store[RefOf(meta[Rival])].tree = args[Rival].dir.tree

\* Position p of token t holds its first '='; what stands before and after it.
FirstEquals(t, p) == t[p] = "=" /\ \A q \in 1..(p - 1) : t[q] # "="
Before(t, p) == SubSeq(t, 1, p - 1)
After(t, p) == SubSeq(t, p + 1, Len(t))

\* C37: the containerize command splits each --build-arg token at its first
\* '=' only: the key is the text before the first '=', the value everything
\* after it, further '=' included, and of two tokens with one key the later
\* one gives the value.
C37_SplitAtFirstEquals ==
    cmd = "built" =>
        /\ \A i \in 1..Len(build_arg) :
              \E p \in 1..Len(build_arg[i]) :
                  LET key == Before(build_arg[i], p) IN
                  /\ FirstEquals(build_arg[i], p)
                  /\ key \in DOMAIN docker_build_args
                  /\ (\A j \in (i + 1)..Len(build_arg) :
                          \A q \in 1..Len(build_arg[j]) :
                              FirstEquals(build_arg[j], q) =>
                                  Before(build_arg[j], q) # key) =>
                        docker_build_args[key] = After(build_arg[i], p)
        /\ \A key \in DOMAIN docker_build_args :
              \E i \in 1..Len(build_arg) :
                  \E p \in 1..Len(build_arg[i]) :
                      FirstEquals(build_arg[i], p) /\ Before(build_arg[i], p) = key

C37_Witness ==
    /\ cmd = "built"
    /\ build_arg = << <<"a", "=", "a">>, <<"a", "=", "=">> >>
    /\ DOMAIN docker_build_args = {<<"a">>}
    /\ docker_build_args[<<"a">>] = <<"=">>

\* ------------------------------------------------------------------------
\* Spinner (src/bentoml/cli/utils.py): the main thread enters and leaves the
\* with-block, the spinner thread runs spinner_task. Each statement that
\* touches the shared fields or sys.stdout is one step.
\* ------------------------------------------------------------------------

Threads == {"main", "spinner"}

\* line 43: itertools.cycle(['-', '/', '|', '\\'])
SpinnerChars == <<"-", "/", "|", "\\">>

\* next(self.spinner): the position after p in the cycle
CycleNext(p) == (p % Len(SpinnerChars)) + 1

\* What the terminal shows after the buffered output b reaches it, n spinner
\* characters being shown before: a spinner character adds one, a backspace
\* takes one away, a blank or a carriage return changes nothing.
RECURSIVE Display(_, _)
Display(n, b) ==
    IF b = <<>> THEN n
    ELSE Display(IF \E i \in 1..Len(SpinnerChars) : SpinnerChars[i] = Head(b) THEN n + 1
                 ELSE IF Head(b) = "BS" THEN n - 1
                 ELSE n,
                 Tail(b))

SpinFrame == UNCHANGED <<repoVars, buildVars, isatty>>

\* lines 74-79: __enter__ creates the lock, sets busy and starts the thread
\* on a terminal, and does nothing otherwise
SpinnerEnter ==
    /\ tpc["main"] = "m_init"
    /\ IF isatty
       THEN /\ busy' = TRUE
            /\ tpc' = [tpc EXCEPT !["main"] = "m_body", !["spinner"] = "t_test"]
       ELSE /\ tpc' = [tpc EXCEPT !["main"] = "m_body"]
            /\ UNCHANGED busy
    /\ UNCHANGED <<spinner_visible, screen_lock, spinner, buf, shown>>
    /\ SpinFrame

LoopNextForever(b) == "wn_acquire"

\* line 69: while self.busy
LoopNext(b) == IF b THEN "wn_acquire" ELSE "t_done"

\* line 69: the spinner thread tests busy
SpinnerTest ==
    /\ tpc["spinner"] = "t_test"
    /\ tpc' = [tpc EXCEPT !["spinner"] = LoopNext(busy)]
    /\ UNCHANGED <<busy, spinner_visible, screen_lock, spinner, buf, shown>>
    /\ SpinFrame

\* lines 52 and 59: with self._screen_lock, entered by thread t at position at
Acquire(t, at, to) ==
    /\ tpc[t] = at
    /\ screen_lock = "none"
    /\ screen_lock' = t
    /\ tpc' = [tpc EXCEPT ![t] = to]
    /\ UNCHANGED <<busy, spinner_visible, spinner, buf, shown>>
    /\ SpinFrame

\* the end of a with self._screen_lock block
Release(t, at, to) ==
    /\ tpc[t] = at
    /\ screen_lock = t
    /\ screen_lock' = "none"
    /\ tpc' = [tpc EXCEPT ![t] = to]
    /\ UNCHANGED <<busy, spinner_visible, spinner, buf, shown>>
    /\ SpinFrame

\* sys.stdout.write(text) by thread t
Write(t, at, to, text) ==
    /\ tpc[t] = at
    /\ buf' = buf \o text
    /\ tpc' = [tpc EXCEPT ![t] = to]
    /\ UNCHANGED <<busy, spinner_visible, screen_lock, shown>>
    /\ SpinFrame

\* lines 56 and 66: sys.stdout.flush() by thread t
Flush(t, at, to) ==
    /\ tpc[t] = at
    /\ shown' = Display(shown, buf)
    /\ buf' = <<>>
    /\ tpc' = [tpc EXCEPT ![t] = to]
    /\ UNCHANGED <<busy, spinner_visible, screen_lock, spinner>>
    /\ SpinFrame

\* a statement of thread t that sets spinner_visible
SetVisible(t, at, to, v) ==
    /\ tpc[t] = at
    /\ spinner_visible' = v
    /\ tpc' = [tpc EXCEPT ![t] = to]
    /\ UNCHANGED <<busy, screen_lock, spinner, buf, shown>>
    /\ SpinFrame

\* a step of thread t that changes no field
Goto(t, at, to) ==
    /\ tpc[t] = at
    /\ tpc' = [tpc EXCEPT ![t] = to]
    /\ UNCHANGED <<busy, spinner_visible, screen_lock, spinner, buf, shown>>
    /\ SpinFrame

\* lines 51-56: write_next, called by the spinner thread
WriteNext ==
    \/ Acquire("spinner", "wn_acquire", "wn_check")
    \/ Goto("spinner", "wn_check", IF ~spinner_visible THEN "wn_write" ELSE "wn_release")
    \/ /\ Write("spinner", "wn_write", "wn_set", <<SpinnerChars[spinner]>>)
       /\ spinner' = CycleNext(spinner)
    \/ SetVisible("spinner", "wn_set", "wn_flush", TRUE)
    \/ Flush("spinner", "wn_flush", "wn_release")
    \/ Release("spinner", "wn_release", "t_sleep")

\* line 71: time.sleep(self.delay)
SpinnerSleep == Goto("spinner", "t_sleep", "rs_acquire")

\* where thread t continues after remove_spinner: the spinner thread tests
\* busy again (line 69), the main thread has left __exit__ (line 84)
AfterRemove(t) == IF t = "main" THEN "m_exited" ELSE "t_test"

\* lines 58-66: remove_spinner(cleanup), called by the spinner thread with
\* cleanup False (line 72) and by the main thread with cleanup True (line 84)
RemoveSpinner(t) ==
    LET cleanup == t = "main" IN
    \/ Acquire(t, "rs_acquire", "rs_check")
    \/ Goto(t, "rs_check", IF spinner_visible THEN "rs_back" ELSE "rs_release")
    \/ /\ Write(t, "rs_back", "rs_clear", <<"BS">>)
       /\ UNCHANGED spinner
    \/ SetVisible(t, "rs_clear", IF cleanup THEN "rs_blank" ELSE "rs_flush", FALSE)
    \/ /\ Write(t, "rs_blank", "rs_flush", <<" ", "CR">>)
       /\ UNCHANGED spinner
    \/ Flush(t, "rs_flush", "rs_release")
    \/ Release(t, "rs_release", AfterRemove(t))

\* lines 81-86: __exit__ clears busy and goes on to remove_spinner(cleanup=True)
\* on a terminal, and writes a carriage return otherwise
SpinnerExit ==
    /\ tpc["main"] = "m_body"
    /\ IF isatty
       THEN /\ busy' = FALSE
            /\ tpc' = [tpc EXCEPT !["main"] = "rs_acquire"]
            /\ UNCHANGED buf
       ELSE /\ buf' = buf \o <<"CR">>
            /\ tpc' = [tpc EXCEPT !["main"] = "m_exited"]
            /\ UNCHANGED busy
    /\ UNCHANGED <<spinner_visible, screen_lock, spinner, shown>>
    /\ SpinFrame

\* lines 68-72: spinner_task
SpinnerTask == SpinnerTest \/ WriteNext \/ SpinnerSleep \/ RemoveSpinner("spinner")

\* lines 81-84: __exit__ from its second statement on
ExitRemove == RemoveSpinner("main")

InitSpinner ==
    /\ bentos = EmptyMap /\ store = EmptyMap
    /\ pc = [c \in Clients |-> "idle"]
    /\ args = [c \in Clients |-> NoArgs]
    /\ meta = [c \in Clients |-> NoMeta]
    /\ resp = [c \in Clients |-> NoResp]
    /\ offset = [c \in Clients |-> 0]
    /\ page = [c \in Clients |-> <<>>]
    /\ idx = [c \in Clients |-> 0]
    /\ result = [c \in Clients |-> "none"]
    /\ cnt = [c \in Clients |-> ZeroCnt]
    /\ pre = [c \in Clients |-> EmptyMap]
    /\ calls = [c \in Clients |-> 0]
    /\ InitLocal
    /\ InitBuild
    /\ InitSpin(BOOLEAN)

NextSpinner == SpinnerEnter \/ SpinnerTask \/ SpinnerExit \/ ExitRemove

SpecSpinner == InitSpinner /\ [][NextSpinner]_vars

\* Both threads are scheduled by the interpreter: a thread that can take a
\* step of spinner_task, or of remove_spinner inside __exit__, takes it in the
\* end. When the with-block ends is up to its body.
FairSpecSpinner == SpecSpinner /\ WF_vars(SpinnerTask) /\ WF_vars(ExitRemove)

\* The main thread is back from __exit__ on a terminal.
ExitReturned == isatty /\ tpc["main"] = "m_exited"

\* __exit__ has set busy to false on a terminal (line 83).
ExitClearedBusy == isatty /\ tpc["main"] \notin {"m_init", "m_body"}

\* The step is line 54 of write_next: a spinner character goes to stdout.
WritesSpinnerChar == tpc["spinner"] = "wn_write" /\ tpc'["spinner"] = "wn_set"

\* C38: once __exit__ has returned on a terminal, no step of the spinner
\* thread writes a spinner character to stdout.
C38_NoWriteAfterExit == [][ExitReturned => ~WritesSpinnerChar]_vars

\* The terminal shows no spinner character, or one.
AtMostOneShown == shown \in {0, 1}

\* spinner_visible says whether a spinner character is shown.
VisibleIffShown == spinner_visible <=> shown = 1

\* The spinner thread ends once __exit__ has cleared busy.
ThreadEnds == ExitClearedBusy ~> tpc["spinner"] = "t_done"

\* C39 as stated: the thread ends once __exit__ has cleared busy, and at
\* every moment at most one spinner character is shown and spinner_visible
\* is true exactly when one is.
C39_EndsAndVisibleIffShown == ThreadEnds /\ [](AtMostOneShown /\ VisibleIffShown)

\* C39: on a terminal the spinner thread ends once __exit__ has cleared
\* busy; at every moment at most one spinner character is shown, and
\* whenever no thread holds the screen lock spinner_visible is true exactly
\* when one is shown.
C39_EndsAndVisibleIffShownUnlocked ==
    ThreadEnds /\ [](AtMostOneShown /\ (screen_lock = "none" => VisibleIffShown))

\* Both threads are through, the spinner thread having gone round its loop:
\* the cycle of characters has moved on and nothing is left on the terminal.
C39_Witness ==
    /\ ExitReturned
    /\ tpc["spinner"] = "t_done"
    /\ spinner > 1
    /\ shown = 0 /\ ~spinner_visible

====
